---- MODULE Spec2Model ----
(***************************************************************************)
(* A model of the GENAI-Intelligence-Studio core: the ranked, deduplicated,*)
(* size-bounded per-user MemoryStore (src/src/memory/memory_store.py) and  *)
(* the LangGraph workflow that reads and writes it                         *)
(* (src/src/graph_builder/graph_builder.py, src/src/node/agentic_nodes.py).*)
(*                                                                         *)
(* Conventions.                                                            *)
(*  - A Python str is a sequence of one-character strings, so that lower(),*)
(*    strip(), split(), len() and the `in` substring test are computed.    *)
(*  - A score is an integer number of tenths (3.0 is 30, 0.5 is 5): every  *)
(*    score the code adds or compares is a multiple of 0.1.                *)
(*  - created_at is a logical time; ISO-8601 strings of one clock compare  *)
(*    as the instants they denote.                                         *)
(*  - An Optional value is <<>> for None and <<v>> for a value v.          *)
(***************************************************************************)
EXTENDS Integers, Sequences, FiniteSets, TLC

VARIABLES
    mem,      \* mem[s]: the dict MemoryStore._store of store instance s
    disk,     \* the file user_memory.json: NoFile or the JSON object in it
    lock,     \* lock[s]: the thread holding MemoryStore._lock of s, or NoThread
    clock,    \* the last value read from datetime.utcnow()
    ret,      \* the last completed MemoryStore call: its arguments and result
    nops,     \* how many MemoryStore calls have completed
    run,      \* the graph run in progress or last finished (GraphBuilder.run)
              \* and whether it repeats the run before it
    before,   \* <<mem, disk>> as they were when that run started
    nruns,    \* how many runs have been started
    thr,      \* thr[t]: the save_memory call thread t is executing
    objs,     \* the ChatSession objects created so far; a reference to one
              \* is its index
    active,   \* ChatHistoryManager._active_sessions: session id -> reference
    files,    \* history/<user_id>/<session_id>.json: <<user_id, session_id>>
              \* -> the JSON object in the file
    uuids,    \* how many session ids uuid4() has produced
    cret,     \* the last completed ChatHistoryManager call and its result
    cops,     \* how many ChatHistoryManager calls have completed
    cthr      \* cthr[t]: the ChatHistoryManager call thread t is executing

storeVars == <<mem, disk, lock, clock, ret, nops>>
runVars == <<run, before, nruns>>
chatVars == <<objs, active, files, uuids, cret, cops, cthr>>
vars == <<mem, disk, lock, clock, ret, nops, run, before, nruns, thr,
          objs, active, files, uuids, cret, cops, cthr>>

-----------------------------------------------------------------------------
(* Bounds of the model *)

MaxOps == 2
MaxRuns == 2

-----------------------------------------------------------------------------
(* Python str operations, on sequences of characters *)

UpperCase == <<"A","B","C","D","E","F","G","H","I","J","K","L","M",
               "N","O","P","Q","R","S","T","U","V","W","X","Y","Z">>
LowerCase == <<"a","b","c","d","e","f","g","h","i","j","k","l","m",
               "n","o","p","q","r","s","t","u","v","w","x","y","z">>

Whitespace == {" ", "\t", "\n", "\r"}

\* The lower-case letter of each upper-case letter
ToLower ==
    [c \in {UpperCase[i] : i \in DOMAIN UpperCase} |->
        LowerCase[CHOOSE i \in DOMAIN UpperCase : UpperCase[i] = c]]

LowerChar(c) == IF c \in DOMAIN ToLower THEN ToLower[c] ELSE c

\* str.lower()
Lower(s) == [i \in DOMAIN s |-> LowerChar(s[i])]

RECURSIVE LStrip(_)
LStrip(s) ==
    IF s = <<>> \/ Head(s) \notin Whitespace THEN s ELSE LStrip(Tail(s))

RECURSIVE RStrip(_)
RStrip(s) ==
    IF s = <<>> \/ s[Len(s)] \notin Whitespace THEN s
    ELSE RStrip(SubSeq(s, 1, Len(s) - 1))

\* str.strip()
Strip(s) == RStrip(LStrip(s))

\* set(str.split()): the set of whitespace-separated words, each the run
\* of characters from a position that starts a word to the end of that word
WordSet(s) ==
    LET n == Len(s)
        starts == {i \in 1..n : /\ s[i] \notin Whitespace
                                 /\ (i = 1 \/ s[i - 1] \in Whitespace)}
        end(i) == CHOOSE j \in i..n :
                      /\ (j = n \/ s[j + 1] \in Whitespace)
                      /\ \A k \in i..j : s[k] \notin Whitespace
    IN  {SubSeq(s, i, end(i)) : i \in starts}

\* `sub in s` for a non-empty sub
Contains(s, sub) ==
    \E i \in 1..(Len(s) - Len(sub) + 1) : SubSeq(s, i, i + Len(sub) - 1) = sub

Max(a, b) == IF a >= b THEN a ELSE b
Min(a, b) == IF a <= b THEN a ELSE b

-----------------------------------------------------------------------------
(* MemorySnippet *)

\* user_memory.json: absent, or present with the JSON text of a dict
NoFile == [kind |-> "missing", data |-> <<>>]

\* The JSON values a user id is mapped to in the file: the object
\* {"memories": [...]} of the present format, or the list of strings an
\* older version wrote
JsonDict(memories) == [type |-> "dict", memories |-> memories, items |-> <<>>]
JsonList(items) == [type |-> "list", memories |-> <<>>, items |-> items]

\* json.dump(self._store, f): every user's entry is {"memories": [...]}
dump(d) == [u \in DOMAIN d |-> JsonDict(d[u])]

JsonFile(d) == [kind |-> "json", data |-> dump(d)]

\* A value that is neither a list nor an object, such as a number
JsonNumber == [type |-> "number", memories |-> <<>>, items |-> <<>>]

\* Files on which _load raises inside its try block: open() fails, the text
\* is not JSON, or the JSON value is an array and has no items()
Unreadable == [kind |-> "unreadable", data |-> <<>>]
InvalidJson == [kind |-> "invalid", data |-> <<>>]
NotAnObject == [kind |-> "array", data |-> <<>>]
NoThread == "NoThread"
None == <<>>
Some(v) == <<v>>

\* hashlib.md5(normalized).hexdigest()[:12]: a function of the normalized
\* content alone; the digest is taken to be collision-free.
compute_hash(content) == Strip(Lower(content))

MemorySnippet(content, score, created_at, category) ==
    [content      |-> content,
     score        |-> score,
     created_at   |-> created_at,
     category     |-> category,
     content_hash |-> compute_hash(content)]

-----------------------------------------------------------------------------
(* MemoryStore: constants and pure helpers *)

MAX_MEMORIES_PER_USER == 10
MIN_SCORE_THRESHOLD == 20

EmptyDict == [u \in {} |-> <<>>]

\* A lookup that gives every user the snippets of all users
get_user_memories_of_all(d, user_id) ==
    (IF "u1" \in DOMAIN d THEN d["u1"] ELSE <<>>)
        \o (IF "u2" \in DOMAIN d THEN d["u2"] ELSE <<>>)

get_user_memories(d, user_id) ==
    IF user_id \in DOMAIN d THEN d[user_id] ELSE <<>>

\* MemorySnippet.from_dict: data["content"] raises KeyError on an entry
\* without that key
from_dict_raises(data) == "content" \notin DOMAIN data

\* _get_user_memories raises when from_dict does on one of the entries
get_user_memories_raises(d, user_id) ==
    \E i \in DOMAIN get_user_memories(d, user_id) :
        from_dict_raises(get_user_memories(d, user_id)[i])

set_user_memories(d, user_id, memories) ==
    [u \in DOMAIN d \cup {user_id} |-> IF u = user_id THEN memories ELSE d[u]]

ActionWords == {
    <<"b","u","i","l","d">>,
    <<"c","r","e","a","t","e">>,
    <<"i","m","p","l","e","m","e","n","t">>,
    <<"d","e","s","i","g","n">>,
    <<"d","e","v","e","l","o","p">>,
    <<"w","a","n","t">>,
    <<"n","e","e","d">>,
    <<"g","o","a","l">> }

GenericPhrases == {
    <<"u","s","e","r"," ","w","a","n","t","s">>,
    <<"u","s","e","r"," ","i","s"," ","i","n","t","e","r","e","s","t","e","d">>,
    <<"g","e","n","e","r","a","l"," ","i","n","t","e","r","e","s","t">> }

\* _score_memory with `<= 20` in its test for short content
score_memory_short_at_twenty(content, category) ==
    LET content_lower == Lower(content)
        base     == 30
        product  == IF category = "product" THEN 5 ELSE 0
        action   == IF \E w \in ActionWords : Contains(content_lower, w)
                    THEN 5 ELSE 0
        generic  == IF \E p \in GenericPhrases : Contains(content_lower, p)
                    THEN 5 ELSE 0
        detailed == IF Len(content) > 50 THEN 3 ELSE 0
        short    == IF Len(content) <= 20 THEN 5 ELSE 0
    IN  Max(10, Min(50, base + product + action - generic + detailed - short))

\* A heuristic that takes a whole point off for a generic phrase
score_memory_generic_by_one(content, category) ==
    LET content_lower == Lower(content)
        base     == 30
        product  == IF category = "product" THEN 5 ELSE 0
        action   == IF \E w \in ActionWords : Contains(content_lower, w)
                    THEN 5 ELSE 0
        generic  == IF \E p \in GenericPhrases : Contains(content_lower, p)
                    THEN 10 ELSE 0
        detailed == IF Len(content) > 50 THEN 3 ELSE 0
        short    == IF Len(content) < 20 THEN 5 ELSE 0
    IN  Max(10, Min(50, base + product + action - generic + detailed - short))

score_memory(content, category) ==
    LET content_lower == Lower(content)
        base     == 30
        product  == IF category = "product" THEN 5 ELSE 0
        action   == IF \E w \in ActionWords : Contains(content_lower, w)
                    THEN 5 ELSE 0
        generic  == IF \E p \in GenericPhrases : Contains(content_lower, p)
                    THEN 5 ELSE 0
        detailed == IF Len(content) > 50 THEN 3 ELSE 0
        short    == IF Len(content) < 20 THEN 5 ELSE 0
    IN  Max(10, Min(50, base + product + action - generic + detailed - short))

\* A threshold of 0.9 in place of 0.8
OverlapAboveNinety(new_words, existing_words) ==
    10 * Cardinality(new_words \cap existing_words)
        > 9 * Max(Cardinality(new_words), Cardinality(existing_words))

\* overlap > 0.8, with overlap = common / max(len(new), len(existing)):
\* the quotient of two small integers exceeds the double 0.8 exactly when
\* 5 * common > 4 * max.
OverlapAboveThreshold(new_words, existing_words) ==
    5 * Cardinality(new_words \cap existing_words)
        > 4 * Max(Cardinality(new_words), Cardinality(existing_words))

\* A comparison that forgets lower(): equal text, or word overlap of the
\* text as written
is_duplicate_case_sensitive(new_content, existing_memories) ==
    \E i \in DOMAIN existing_memories :
        \/ existing_memories[i].content = new_content
        \/ /\ WordSet(new_content) # {}
           /\ WordSet(existing_memories[i].content) # {}
           /\ OverlapAboveThreshold(WordSet(new_content),
                                    WordSet(existing_memories[i].content))

\* A comparison that returns after the first existing memory
is_duplicate_of_first(new_content, existing_memories) ==
    LET new_hash  == compute_hash(new_content)
        new_words == WordSet(Lower(new_content))
    IN  \E i \in DOMAIN existing_memories \cap {1} :
            LET m == existing_memories[i]
                existing_words == WordSet(Lower(m.content))
            IN  \/ m.content_hash = new_hash
                \/ /\ new_words # {}
                   /\ existing_words # {}
                   /\ OverlapAboveThreshold(new_words, existing_words)

is_duplicate(new_content, existing_memories) ==
    LET new_hash  == compute_hash(new_content)
        new_words == WordSet(Lower(new_content))
    IN  \E i \in DOMAIN existing_memories :
            LET m == existing_memories[i]
                existing_words == WordSet(Lower(m.content))
            IN  \/ m.content_hash = new_hash
                \/ /\ new_words # {}
                   /\ existing_words # {}
                   /\ OverlapAboveThreshold(new_words, existing_words)

\* A sort key of the score alone
ScoreGreater(a, b) == a.score > b.score

\* The sort key (m.score, m.created_at), compared as Python compares tuples
KeyGreater(a, b) ==
    \/ a.score > b.score
    \/ a.score = b.score /\ a.created_at > b.created_at

\* list.sort(key=..., reverse=True) is stable: among equal keys the earlier
\* element of the list stays first.
RECURSIVE InsertDescending(_, _)
InsertDescending(m, sorted) ==
    IF sorted = <<>> THEN <<m>>
    ELSE IF KeyGreater(m, Head(sorted))
         THEN <<m>> \o sorted
         ELSE <<Head(sorted)>> \o InsertDescending(m, Tail(sorted))

RECURSIVE SortDescending(_)
SortDescending(memories) ==
    IF memories = <<>> THEN <<>>
    ELSE InsertDescending(memories[Len(memories)],
                          SortDescending(SubSeq(memories, 1, Len(memories) - 1)))

KeepQualified(memories) ==
    SelectSeq(memories, LAMBDA m : m.score >= MIN_SCORE_THRESHOLD)

\* No truncation
TopN_unbounded(memories) == memories

TopN(memories) ==
    SubSeq(memories, 1, Min(Len(memories), MAX_MEMORIES_PER_USER))

prune_memories(memories) == TopN(SortDescending(KeepQualified(memories)))

-----------------------------------------------------------------------------
(* MemoryStore: the public operations, as functions of the dict they act on *)

\* The outcome of one call: the value returned, the dict afterwards, and
\* whether _save() rewrote the file.
Outcome(result, d, wrote) == [result |-> result, store |-> d, wrote |-> wrote]

\* save_memory with `<= 5` in its length test
save_memory_rejecting_five(d, user_id, snippet, category, score, now) ==
    IF snippet = <<>> \/ Len(Strip(snippet)) <= 5 THEN Outcome(FALSE, d, FALSE)
    ELSE
    LET stripped == Strip(snippet)
        memories == get_user_memories(d, user_id)
        scored   == IF score = None THEN score_memory(stripped, category)
                    ELSE score[1]
    IN  IF is_duplicate(stripped, memories) THEN Outcome(FALSE, d, FALSE)
        ELSE IF scored < MIN_SCORE_THRESHOLD THEN Outcome(FALSE, d, FALSE)
        ELSE LET new_memory == MemorySnippet(stripped, scored, now, category)
                 pruned     == prune_memories(Append(memories, new_memory))
             IN  Outcome(TRUE, set_user_memories(d, user_id, pruned), TRUE)

save_memory(d, user_id, snippet, category, score, now) ==
    IF snippet = <<>> \/ Len(Strip(snippet)) < 5 THEN Outcome(FALSE, d, FALSE)
    ELSE
    LET stripped == Strip(snippet)
        memories == get_user_memories(d, user_id)
        scored   == IF score = None THEN score_memory(stripped, category)
                    ELSE score[1]
    IN  IF is_duplicate(stripped, memories) THEN Outcome(FALSE, d, FALSE)
        ELSE IF scored < MIN_SCORE_THRESHOLD THEN Outcome(FALSE, d, FALSE)
        ELSE LET new_memory == MemorySnippet(stripped, scored, now, category)
                 pruned     == prune_memories(Append(memories, new_memory))
             IN  Outcome(TRUE, set_user_memories(d, user_id, pruned), TRUE)

\* The index of the first memory with the given hash, or 0
FirstWithHash(memories, content_hash) ==
    IF \E i \in DOMAIN memories : memories[i].content_hash = content_hash
    THEN CHOOSE i \in DOMAIN memories :
            /\ memories[i].content_hash = content_hash
            /\ \A j \in 1..(i - 1) : memories[j].content_hash # content_hash
    ELSE 0

update_score(d, user_id, content_hash, new_score) ==
    LET memories == get_user_memories(d, user_id)
        hit      == FirstWithHash(memories, content_hash)
        rescored == IF hit = 0 THEN memories
                    ELSE [memories EXCEPT
                            ![hit].score = Max(10, Min(50, new_score))]
    IN  Outcome(None, set_user_memories(d, user_id, prune_memories(rescored)),
                TRUE)

\* memories.sort(key=lambda m: m.score, reverse=True): stable, by score alone
RECURSIVE InsertByScore(_, _)
InsertByScore(m, sorted) ==
    IF sorted = <<>> THEN <<m>>
    ELSE IF m.score > Head(sorted).score
         THEN <<m>> \o sorted
         ELSE <<Head(sorted)>> \o InsertByScore(m, Tail(sorted))

RECURSIVE SortByScore(_)
SortByScore(memories) ==
    IF memories = <<>> THEN <<>>
    ELSE InsertByScore(memories[Len(memories)],
                       SortByScore(SubSeq(memories, 1, Len(memories) - 1)))

\* sep.join(parts)
RECURSIVE Join(_, _)
Join(sep, parts) ==
    IF parts = <<>> THEN <<>>
    ELSE IF Len(parts) = 1 THEN parts[1]
    ELSE parts[1] \o sep \o Join(sep, Tail(parts))

\* get_memory without the sort: the first five of the eligible snippets
get_memory_unsorted(d, user_id, category) ==
    LET memories == get_user_memories(d, user_id)
        eligible == IF category = None \/ category[1] = "" THEN memories
                    ELSE SelectSeq(memories,
                            LAMBDA m : m.category = category[1]
                                       \/ m.category = "general")
        top      == SubSeq(eligible, 1, Min(Len(eligible), 5))
    IN  IF memories = <<>> THEN <<>>
        ELSE Join(<<"\n">>, [i \in DOMAIN top |-> top[i].content])

\* get_memory(user_id, category): category is None or Some(category)
get_memory(d, user_id, category) ==
    LET memories == get_user_memories(d, user_id)
        eligible == IF category = None \/ category[1] = "" THEN memories
                    ELSE SelectSeq(memories,
                            LAMBDA m : m.category = category[1]
                                       \/ m.category = "general")
        ranked   == SortByScore(eligible)
        top      == SubSeq(ranked, 1, Min(Len(ranked), 5))
    IN  IF memories = <<>> THEN <<>>
        ELSE Join(<<"\n">>, [i \in DOMAIN top |-> top[i].content])

\* get_all_memories(user_id): the snippets, highest score first; the sort
\* is applied to the list _get_user_memories has built, not to the store
get_all_memories_sorting_store(d, user_id) ==
    Outcome(SortByScore(get_user_memories(d, user_id)),
            IF user_id \in DOMAIN d
            THEN [d EXCEPT ![user_id] = SortByScore(d[user_id])] ELSE d,
            FALSE)

get_all_memories(d, user_id) ==
    Outcome(SortByScore(get_user_memories(d, user_id)), d, FALSE)

RECURSIVE SumOfScores(_)
SumOfScores(memories) ==
    IF memories = <<>> THEN 0
    ELSE Head(memories).score + SumOfScores(Tail(memories))

\* get_memory_stats(user_id); avg_score is score_sum / count
get_memory_stats(d, user_id) ==
    LET memories == get_user_memories(d, user_id)
        times    == {memories[i].created_at : i \in DOMAIN memories}
        cats     == {memories[i].category : i \in DOMAIN memories}
    IN  IF memories = <<>>
        THEN Outcome([count |-> 0, score_sum |-> 0,
                      categories |-> [c \in {} |-> 0]], d, FALSE)
        ELSE Outcome(
               [count      |-> Len(memories),
                score_sum  |-> SumOfScores(memories),
                categories |-> [c \in cats |->
                                  Cardinality({i \in DOMAIN memories :
                                                 memories[i].category = c})],
                oldest     |-> CHOOSE t \in times : \A o \in times : t <= o,
                newest     |-> CHOOSE t \in times : \A o \in times : t >= o],
               d, FALSE)

\* MemoryStore.__init__ / _load on a file written by _save()
\* [MemorySnippet(content=s, score=3.0).to_dict() for s in value if s]:
\* the snippets get the time of the load as created_at
RECURSIVE FromLegacyList(_, _)
FromLegacyList(items, now) ==
    IF items = <<>> THEN <<>>
    ELSE IF Head(items) = <<>> THEN FromLegacyList(Tail(items), now)
    ELSE <<MemorySnippet(Head(items), 30, now, "general")>>
            \o FromLegacyList(Tail(items), now)

\* _load at time `now`, followed by _get_user_memories for every user
load_at(file, now) ==
    IF file.kind = "missing" THEN EmptyDict
    ELSE IF file.kind # "json" THEN EmptyDict
    ELSE [u \in DOMAIN file.data |->
            IF file.data[u].type = "list"
            THEN FromLegacyList(file.data[u].items, now)
            ELSE IF file.data[u].type = "dict"
            THEN file.data[u].memories
            ELSE <<>>]

\* What a store constructed now would hold
load(file) == load_at(file, clock)

delete_memory(d, user_id, content_hash) ==
    LET memories == get_user_memories(d, user_id)
        Other(m) == m.content_hash # content_hash
    IN  Outcome(None,
                set_user_memories(d, user_id, SelectSeq(memories, Other)),
                TRUE)

clear_user_memories(d, user_id) ==
    IF user_id \in DOMAIN d
    THEN Outcome(None, [d EXCEPT ![user_id] = <<>>], TRUE)
    ELSE Outcome(None, d, FALSE)

-----------------------------------------------------------------------------
(* The inputs the operations are exercised with *)

Users == {"u1", "u2"}
Stores == {1, 2}

C_abcde  == <<"a"," ","b"," ","c"," ","d"," ","e">>
C_ABCDE  == <<" ","A"," ","B"," ","C"," ","D"," ","E"," ">>
C_abcdf  == <<"a"," ","b"," ","c"," ","d"," ","f">>
C_abcdef == <<"a"," ","b"," ","c"," ","d"," ","e"," ","f">>
C_short  == <<" ","a","b","c"," ">>

Contents == {C_abcde, C_ABCDE, C_abcdf, C_abcdef, C_short}

\* (category, score, elapsed) of a save_memory call: the category and score
\* arguments (the heuristic score in two categories, the explicit scores 1.9
\* and 6.0) and the time elapsed on the clock since it was last read (0 when
\* utcnow() returns the same instant again)
SaveOptions == {<<"docs", None, 1>>, <<"product", None, 1>>,
                <<"product", None, 0>>,
                <<"docs", Some(19), 1>>, <<"general", Some(60), 1>>}

\* new_score arguments of update_score: 0.5 and 6.0
NewScores == {5, 60}

Digits == <<"0","1","2","3","4","5","6","7","8","9">>
Filler(i) == <<"b","u","i","l","d", Digits[i]>>

Hashes == {compute_hash(c) : c \in {C_abcde, Filler(2)}}

\* The dict of a store on which save_memory was called k times for user u1,
\* at times 1..k, with k distinct fillers and the heuristic score.
RECURSIVE FilledBy(_)
FilledBy(k) ==
    IF k = 0 THEN EmptyDict
    ELSE save_memory(FilledBy(k - 1), "u1", Filler(k),
                     IF k % 2 = 1 THEN "product" ELSE "docs", None, k).store

FillSizes == {0, MAX_MEMORIES_PER_USER - 1}

-----------------------------------------------------------------------------
(* The store used through its public operations by one caller at a time   *)
(* (every operation runs under MemoryStore._lock from start to end)       *)

Threads == {"t1", "t2"}
IdleThread == [pc |-> "idle", store |-> 1, user_id |-> "", snippet |-> <<>>,
               category |-> "", result |-> FALSE]

NoRun == [pc |-> "idle", engine |-> 1, state |-> <<>>, route |-> "none",
          trace |-> <<>>, calls |-> <<>>, raised |-> <<>>,
          repeats |-> FALSE]

\* A ChatHistoryManager just constructed on an empty history directory, and
\* no call on it
NoSessions == [id \in {} |-> 0]
NoFiles == [path \in {} |-> <<>>]
IdleChatThread == [pc |-> "idle", session |-> 0, loaded |-> 0, target |-> 0,
                   appended |-> FALSE]

NoChat ==
    /\ objs = <<>>
    /\ active = NoSessions
    /\ files = NoFiles
    /\ uuids = 0
    /\ cret = [op |-> "none"]
    /\ cops = 0
    /\ cthr = [t \in Threads |-> IdleChatThread]

Init ==
    \E k \in FillSizes :
        /\ mem = [s \in Stores |-> IF s = 1 THEN FilledBy(k) ELSE EmptyDict]
        /\ disk = IF k = 0 THEN NoFile ELSE JsonFile(FilledBy(k))
        /\ lock = [s \in Stores |-> NoThread]
        /\ clock = k
        /\ ret = [op |-> "none"]
        /\ nops = 0
        /\ run = NoRun
        /\ before = <<mem, disk>>
        /\ nruns = 0
        /\ thr = [t \in Threads |-> IdleThread]
        /\ NoChat

Complete(s, out, now, call) ==
    /\ mem' = [mem EXCEPT ![s] = out.store]
    /\ disk' = IF out.wrote THEN JsonFile(out.store) ELSE disk
    /\ clock' = now
    /\ ret' = call
    /\ nops' = nops + 1
    /\ UNCHANGED lock

SaveMemory(s, user_id, snippet, category, score, elapsed) ==
    /\ nops < MaxOps
    /\ lock[s] = NoThread
    /\ \E out \in {save_memory(mem[s], user_id, snippet, category, score,
                                clock + elapsed)} :
          Complete(s, out, IF out.result THEN clock + elapsed ELSE clock,
                   [op |-> "save", user |-> user_id, snippet |-> snippet,
                    category |-> category, score |-> score,
                    result |-> out.result])

UpdateScore(s, user_id, content_hash, new_score) ==
    /\ nops < MaxOps
    /\ lock[s] = NoThread
    /\ \E out \in {update_score(mem[s], user_id, content_hash, new_score)} :
           Complete(s, out, clock,
                    [op |-> "update_score", user |-> user_id,
                     content_hash |-> content_hash, new_score |-> new_score])

Next ==
    \/ \E u \in Users, c \in Contents, o \in SaveOptions :
          SaveMemory(1, u, c, o[1], o[2], o[3]) /\ UNCHANGED <<runVars, thr, chatVars>>
    \/ \E u \in Users, h \in Hashes, n \in NewScores :
          UpdateScore(1, u, h, n) /\ UNCHANGED <<runVars, thr, chatVars>>

Spec == Init /\ [][Next]_vars

-----------------------------------------------------------------------------
(* AgentState and the node functions of the workflow                       *)
(* A node function is an operator from the state (and what its             *)
(* collaborators replied) to the partial update it returns.                *)

\* s[:n]
Take(s, n) == SubSeq(s, 1, Min(Len(s), n))

\* s.split("\n")
RECURSIVE SplitLinesFrom(_, _, _)
SplitLinesFrom(s, line, acc) ==
    IF s = <<>> THEN Append(acc, line)
    ELSE IF Head(s) = "\n" THEN SplitLinesFrom(Tail(s), <<>>, Append(acc, line))
    ELSE SplitLinesFrom(Tail(s), Append(line, Head(s)), acc)

SplitLines(s) == SplitLinesFrom(s, <<>>, <<>>)

\* state.get(key, default)
Get(state, key, default) == IF key \in DOMAIN state THEN state[key] ELSE default

\* What state.get("mode") returns when the key is missing
NoneMode == "None"

\* bool(x) of an Optional[str]
Truthy(opt) == opt # None /\ opt[1] # <<>>

\* The update {} and the merge of a returned update into the state
NoUpdate == <<>>
\* A merge that resets tool_context whenever an update does not carry it
Merge_resetting(state, update) ==
    [k \in DOMAIN state \cup DOMAIN update |->
        IF k \in DOMAIN update THEN update[k]
        ELSE IF k = "tool_context" THEN <<>> ELSE state[k]]

Merge(state, update) ==
    [k \in DOMAIN state \cup DOMAIN update |->
        IF k \in DOMAIN update THEN update[k] ELSE state[k]]

\* An initial state that already carries a tool context
InitState_with_tool_context(question, user_id, mode, video_url) ==
    [question              |-> question,
     user_id               |-> user_id,
     mode                  |-> mode,
     intent                |-> None,
     retrieved_docs        |-> <<>>,
     tool_context          |-> <<"[","P","R","E","]">>,
     intermediate_answer   |-> <<>>,
     answer                |-> <<>>,
     memory_snippet        |-> None,
     memory_to_save        |-> None,
     video_url             |-> video_url,
     video_chapters        |-> <<>>,
     research_links        |-> <<>>,
     research_raw_contents |-> <<>>,
     research_plan         |-> <<>>]

\* init_state of GraphBuilder.run
InitState(question, user_id, mode, video_url) ==
    [question              |-> question,
     user_id               |-> user_id,
     mode                  |-> mode,
     intent                |-> None,
     retrieved_docs        |-> <<>>,
     tool_context          |-> <<>>,
     intermediate_answer   |-> <<>>,
     answer                |-> <<>>,
     memory_snippet        |-> None,
     memory_to_save        |-> None,
     video_url             |-> video_url,
     video_chapters        |-> <<>>,
     research_links        |-> <<>>,
     research_raw_contents |-> <<>>,
     research_plan         |-> <<>>]

L_code    == <<"c","o","d","e">>
L_news    == <<"n","e","w","s">>
L_general == <<"g","e","n","e","r","a","l">>

PRE_CODE_CONTEXT == <<"[","P","R","E","-","C","O","D","E","-","C","O","N","T","E","X","T","]","\n">>
PRE_PRODUCT_CONTEXT == <<"[","P","R","E","-","P","R","O","D","U","C","T","-","C","O","N","T","E","X","T","]","\n">>
RESEARCH_PLAN == <<"\n","[","R","E","S","E","A","R","C","H","-","P","L","A","N","]","\n">>
BUILT_MVP_FOR == <<"B","u","i","l","t"," ","M","V","P"," ","f","o","r",":"," ">>
COULD_NOT_GENERATE == <<"C","o","u","l","d"," ","n","o","t"," ","g","e","n","e","r","a","t","e"," ","a","n","s","w","e","r",".">>

\* A router that sends every mode but product to the docs branch
route_all_to_docs(state) ==
    IF Get(state, "mode", "docs") = "product" THEN "product" ELSE "docs"

route_by_mode(state) ==
    LET mode == Get(state, "mode", "docs")
    IN  IF mode = "product" THEN "product"
        ELSE IF mode = "video" THEN "video"
        ELSE IF mode = "research" THEN "research"
        ELSE "docs"

\* Whether router_node asks the LLM for an intent label
router_classifies(state) ==
    Get(state, "mode", "docs") \notin {"product", "video", "research"}

\* A router that labels the intent in every mode
router_node_labels_every_mode(state, reply) ==
    LET label == Lower(Strip(reply))
    IN  [intent |-> Some(IF label \in {L_code, L_news, L_general}
                         THEN label ELSE L_general)]

router_node(state, reply) ==
    IF ~router_classifies(state) THEN NoUpdate
    ELSE LET label == Lower(Strip(reply))
         IN  [intent |-> Some(IF label \in {L_code, L_news, L_general}
                              THEN label ELSE L_general)]

\* memory_read without the exclusion of video mode
memory_read_node_any_mode(state, d) ==
    LET snippet == get_memory(d, Get(state, "user_id", "default_user"), None)
    IN  [memory_snippet |-> IF snippet = <<>> THEN None ELSE Some(snippet)]

memory_read_node(state, d) ==
    IF Get(state, "mode", NoneMode) = "video" THEN [memory_snippet |-> None]
    ELSE LET snippet == get_memory(d, Get(state, "user_id", "default_user"),
                                   None)
         IN  [memory_snippet |-> IF snippet = <<>> THEN None ELSE Some(snippet)]

retriever_retrieves(state) == Get(state, "mode", NoneMode) \in {"docs", "video"}

\* A retriever node that leaves the retriever's k at 4 in every mode
retriever_k_always_four(state) == 4

\* The k set on the retriever before it is invoked
retriever_k(state) == IF Get(state, "mode", NoneMode) = "video" THEN 15 ELSE 4

retriever_node(state, docs) ==
    IF ~retriever_retrieves(state) THEN NoUpdate
    ELSE [retrieved_docs |-> docs]

tools_asks(state) ==
    LET mode   == Get(state, "mode", "docs")
        intent == Get(state, "intent", None)
    IN  \/ mode = "docs" /\ intent # None /\ intent[1] = L_code
        \/ mode = "product"

tools_node(state, reply) ==
    LET mode  == Get(state, "mode", "docs")
        extra == IF ~tools_asks(state) THEN <<>>
                 ELSE IF mode = "docs" THEN PRE_CODE_CONTEXT \o reply
                 ELSE PRE_PRODUCT_CONTEXT \o reply
        existing == Get(state, "tool_context", <<>>)
    IN  IF extra # <<>>
        THEN [tool_context |-> Strip(existing \o <<"\n">> \o extra)]
        ELSE NoUpdate

\* A guard that lets docs runs into the video nodes
is_video_or_docs(state) == Get(state, "mode", NoneMode) \in {"video", "docs"}

is_video(state) == Get(state, "mode", NoneMode) = "video"

video_precontext_node(state, reply) ==
    IF ~is_video(state) THEN NoUpdate ELSE [tool_context |-> reply]

video_chapter_node(state, reply) ==
    IF ~is_video(state) THEN NoUpdate
    ELSE [video_chapters |-> SplitLines(reply)]

react_agent_answers(state) == Get(state, "mode", NoneMode) \in {"docs", "video"}

\* answer: the text of the agent's last message or, when the agent failed,
\* of the LLM's reply to the fallback prompt
react_agent_node(state, answer) ==
    IF ~react_agent_answers(state) THEN NoUpdate
    ELSE [intermediate_answer |->
            IF answer = <<>> THEN COULD_NOT_GENERATE ELSE answer]

is_product(state) == Get(state, "mode", NoneMode) = "product"

product_builder_node(state, content) ==
    IF ~is_product(state) THEN NoUpdate
    ELSE [intermediate_answer |-> content]

writer_asks(state) == Get(state, "mode", "docs") \notin {"video", "product"}
\* A writer that proposes the whole question in product mode
writer_node_whole_question(state, reply) ==
    LET mode == Get(state, "mode", "docs")
        intermediate_answer == Get(state, "intermediate_answer", <<>>)
        question == Get(state, "question", <<>>)
    IN  IF mode = "video"
        THEN [answer |-> intermediate_answer, memory_to_save |-> None]
        ELSE IF mode = "product"
        THEN [answer |-> intermediate_answer,
              memory_to_save |-> Some(BUILT_MVP_FOR \o question)]
        ELSE IF reply.parsed
        THEN [answer |-> IF reply.answer = None THEN intermediate_answer
                         ELSE reply.answer[1],
              memory_to_save |-> IF Truthy(reply.memory_to_save)
                                 THEN reply.memory_to_save ELSE None]
        ELSE [answer |-> intermediate_answer, memory_to_save |-> None]

\* A writer that proposes a snippet in video mode as it does in product mode
writer_node_video_proposes(state, reply) ==
    LET mode == Get(state, "mode", "docs")
        intermediate_answer == Get(state, "intermediate_answer", <<>>)
        question == Get(state, "question", <<>>)
    IN  IF mode \in {"video", "product"}
        THEN [answer |-> intermediate_answer,
              memory_to_save |-> Some(BUILT_MVP_FOR \o Take(question, 100))]
        ELSE IF reply.parsed
        THEN [answer |-> IF reply.answer = None THEN intermediate_answer
                         ELSE reply.answer[1],
              memory_to_save |-> IF Truthy(reply.memory_to_save)
                                 THEN reply.memory_to_save ELSE None]
        ELSE [answer |-> intermediate_answer, memory_to_save |-> None]

\* A writer that passes an empty proposal on as it is
writer_node_keeps_empty(state, reply) ==
    LET mode == Get(state, "mode", "docs")
        intermediate_answer == Get(state, "intermediate_answer", <<>>)
        question == Get(state, "question", <<>>)
    IN  IF mode = "video"
        THEN [answer |-> intermediate_answer, memory_to_save |-> None]
        ELSE IF mode = "product"
        THEN [answer |-> intermediate_answer,
              memory_to_save |-> Some(BUILT_MVP_FOR \o Take(question, 100))]
        ELSE IF reply.parsed
        THEN [answer |-> IF reply.answer = None THEN intermediate_answer
                         ELSE reply.answer[1],
              memory_to_save |-> reply.memory_to_save]
        ELSE [answer |-> intermediate_answer, memory_to_save |-> None]

\* reply: what json.loads makes of the LLM's text: [parsed |-> FALSE] when
\* it raises (or yields no dict), else the Optional values of the two keys
writer_node(state, reply) ==
    LET mode == Get(state, "mode", "docs")
        intermediate_answer == Get(state, "intermediate_answer", <<>>)
        question == Get(state, "question", <<>>)
    IN  IF mode = "video"
        THEN [answer |-> intermediate_answer, memory_to_save |-> None]
        ELSE IF mode = "product"
        THEN [answer |-> intermediate_answer,
              memory_to_save |-> Some(BUILT_MVP_FOR \o Take(question, 100))]
        ELSE IF reply.parsed
        THEN [answer |-> IF reply.answer = None THEN intermediate_answer
                         ELSE reply.answer[1],
              memory_to_save |-> IF Truthy(reply.memory_to_save)
                                 THEN reply.memory_to_save ELSE None]
        ELSE [answer |-> intermediate_answer, memory_to_save |-> None]

is_research(state) == Get(state, "mode", NoneMode) = "research"

research_precontext_node(state, plan) ==
    IF ~is_research(state) THEN NoUpdate
    ELSE [tool_context  |-> Strip(Get(state, "tool_context", <<>>)
                                  \o RESEARCH_PLAN \o plan),
          research_plan |-> plan]

research_agent_node(state, answer) ==
    IF ~is_research(state) THEN NoUpdate
    ELSE [intermediate_answer |-> answer]

-----------------------------------------------------------------------------
(* The graph of GraphBuilder.build *)

END == "END"

\* A graph in which the tools node runs after memory_write
EdgesToolsLast ==
    [memory_read         |-> "retriever",
     retriever           |-> "video_precontext",
     video_precontext    |-> "video_chapters",
     video_chapters      |-> "react_agent",
     react_agent         |-> "writer",
     product_builder     |-> "writer",
     research_precontext |-> "research_agent",
     research_agent      |-> "writer",
     writer              |-> "memory_write",
     memory_write        |-> "tools",
     tools               |-> END]

Edges ==
    [memory_read         |-> "retriever",
     retriever           |-> "video_precontext",
     video_precontext    |-> "video_chapters",
     video_chapters      |-> "tools",
     tools               |-> "react_agent",
     react_agent         |-> "writer",
     product_builder     |-> "writer",
     research_precontext |-> "research_agent",
     research_agent      |-> "writer",
     writer              |-> "memory_write",
     memory_write        |-> END]

\* Conditional edges that send the docs branch past memory_read
ConditionalTargetsPastMemoryRead ==
    [docs     |-> "retriever",
     video    |-> "memory_read",
     product  |-> "product_builder",
     research |-> "research_precontext"]

ConditionalTargets ==
    [docs     |-> "memory_read",
     video    |-> "memory_read",
     product  |-> "product_builder",
     research |-> "research_precontext"]

EntryPoint == "router"

\* The node that runs after `node` has returned and `state` holds its update
Successor(node, state) ==
    IF node = "router" THEN ConditionalTargets[route_by_mode(state)]
    ELSE Edges[node]

-----------------------------------------------------------------------------
(* Runs of the workflow (specification SpecRun)                            *)
(* run.pc is the node about to execute, END after the last node returned,  *)
(* "failed" when a node raised and the exception left graph.invoke.        *)
(* run.trace lists the nodes invoked, run.calls the calls made to the      *)
(* retriever, to the agent and its fallback, to the writer's LLM and to    *)
(* save_memory,                                                            *)
(* run.route what route_by_mode returned, run.raised the node whose        *)
(* exception ended the run.  before is <<mem, disk>> at the moment the run *)
(* started.                                                                *)

Engines == {1}
Modes == {"docs", "video", "product", "research", "chat"}

Q_todo == <<"t","o","d","o"," ","a","p","p">>
Questions == {Q_todo}
VideoUrls == {<<>>}

R_Code  == <<" ","C","o","d","e","\n">>
R_other == <<"o","t","h","e","r">>
IntentReplies == {R_Code, R_other}

T_text  == <<"o","k","\n","g","o">>
Texts == {T_text}
Answers == {T_text, <<>>}
DocLists == {<<"doc1">>, <<"doc2", "doc1">>}

WriterReplies ==
    {[parsed |-> FALSE, answer |-> None, memory_to_save |-> None],
     [parsed |-> TRUE,  answer |-> None, memory_to_save |-> Some(<<>>)],
     [parsed |-> TRUE,  answer |-> Some(T_text), memory_to_save |-> None],
     [parsed |-> TRUE,  answer |-> Some(T_text),
      memory_to_save |-> Some(C_abcde)],
     [parsed |-> TRUE,  answer |-> Some(T_text),
      memory_to_save |-> Some(C_abcdf)]}

\* A state whose "mode" key is missing (AgentState is total=False)
WithoutMode(state) == [k \in DOMAIN state \ {"mode"} |-> state[k]]

InitRun ==
    \E k \in FillSizes :
        /\ disk = IF k = 0 THEN NoFile ELSE JsonFile(FilledBy(k))
        /\ mem = [s \in Stores |-> load_at(disk, k)]
        /\ lock = [s \in Stores |-> NoThread]
        /\ clock = k
        /\ ret = [op |-> "none"]
        /\ nops = 0
        /\ run = NoRun
        /\ before = <<mem, disk>>
        /\ nruns = 0
        /\ thr = [t \in Threads |-> IdleThread]
        /\ NoChat

\* The run of `state` comes right after a run that ended, with the same
\* mode, user and question (a record of the past, which no code reads)
Repeats(state) ==
    /\ run.pc = END
    /\ \A k \in {"mode", "user_id", "question"} :
          /\ k \in DOMAIN state <=> k \in DOMAIN run.state
          /\ k \in DOMAIN state => state[k] = run.state[k]

Invoke(e, state) ==
    /\ run.pc \in {"idle", END, "failed"}
    /\ nruns < MaxRuns
    /\ run' = [pc |-> EntryPoint, engine |-> e, state |-> state,
               route |-> "none", trace |-> <<>>, calls |-> <<>>,
               raised |-> None, repeats |-> Repeats(state)]
    /\ before' = <<mem, disk>>
    /\ nruns' = nruns + 1
    /\ UNCHANGED <<storeVars, thr, chatVars>>

\* GraphBuilder.run up to the first node
Run(e, question, user_id, mode, video_url) ==
    Invoke(e, InitState(question, user_id, mode, video_url))

\* graph.invoke on a state that carries no mode
InvokeWithoutMode(e, question, user_id) ==
    Invoke(e, WithoutMode(InitState(question, user_id, "docs", <<>>)))

\* The node returned `update`, having made the calls `made`
Return(node, update, made) ==
    \E state \in {Merge(run.state, update)} :
        run' = [run EXCEPT !.state = state,
                           !.pc    = Successor(node, state),
                           !.route = IF node = "router"
                                     THEN route_by_mode(state) ELSE @,
                           !.trace = Append(@, node),
                           !.calls = @ \o made]

\* An engine that catches what a node raises and goes on to the next node
RaiseCaught(node, made) ==
    run' = [run EXCEPT !.pc     = Successor(node, run.state),
                       !.route  = IF node = "router"
                                  THEN route_by_mode(run.state) ELSE @,
                       !.trace  = Append(@, node),
                       !.calls  = @ \o made,
                       !.raised = Some(node)]

\* The node raised, having made the calls `made`: nothing catches the
\* exception, it leaves graph.invoke and GraphBuilder.run
Raise(node, made) ==
    run' = [run EXCEPT !.pc     = "failed",
                       !.trace  = Append(@, node),
                       !.calls  = @ \o made,
                       !.raised = Some(node)]

RouterNode ==
    /\ run.pc = "router"
    /\ IF router_classifies(run.state)
       THEN \/ \E reply \in IntentReplies :
                  Return("router", router_node(run.state, reply), <<>>)
            \/ Raise("router", <<>>)
       ELSE Return("router", router_node(run.state, <<>>), <<>>)
    /\ UNCHANGED <<storeVars, before, nruns, thr, chatVars>>

MemoryReadNode ==
    /\ run.pc = "memory_read"
    /\ lock[run.engine] = NoThread
    /\ Return("memory_read", memory_read_node(run.state, mem[run.engine]),
              <<>>)
    /\ UNCHANGED <<storeVars, before, nruns, thr, chatVars>>

RetrieverNode ==
    /\ run.pc = "retriever"
    /\ IF retriever_retrieves(run.state)
       THEN \/ \E docs \in DocLists :
                  Return("retriever", retriever_node(run.state, docs),
                         <<[fn |-> "retriever.invoke",
                            args |-> <<retriever_k(run.state)>>,
                            returned |-> docs]>>)
            \/ Raise("retriever", <<>>)
       ELSE Return("retriever", retriever_node(run.state, <<>>), <<>>)
    /\ UNCHANGED <<storeVars, before, nruns, thr, chatVars>>

VideoPrecontextNode ==
    /\ run.pc = "video_precontext"
    /\ IF is_video(run.state)
       THEN \/ \E reply \in Texts :
                  Return("video_precontext",
                         video_precontext_node(run.state, reply), <<>>)
            \/ Raise("video_precontext", <<>>)
       ELSE Return("video_precontext",
                   video_precontext_node(run.state, <<>>), <<>>)
    /\ UNCHANGED <<storeVars, before, nruns, thr, chatVars>>

VideoChapterNode ==
    /\ run.pc = "video_chapters"
    /\ IF is_video(run.state)
       THEN \/ \E reply \in Texts :
                  Return("video_chapters",
                         video_chapter_node(run.state, reply), <<>>)
            \/ Raise("video_chapters", <<>>)
       ELSE Return("video_chapters", video_chapter_node(run.state, <<>>),
                   <<>>)
    /\ UNCHANGED <<storeVars, before, nruns, thr, chatVars>>

ToolsNode ==
    /\ run.pc = "tools"
    /\ IF tools_asks(run.state)
       THEN \/ \E reply \in Texts :
                  Return("tools", tools_node(run.state, reply), <<>>)
            \/ Raise("tools", <<>>)
       ELSE Return("tools", tools_node(run.state, <<>>), <<>>)
    /\ UNCHANGED <<storeVars, before, nruns, thr, chatVars>>

\* The calls react_agent_node makes: the tool-calling agent inside `try`
\* and, when that raised, the LLM with the fallback prompt inside `except`
AgentCall(outcome) == [fn |-> "agent.invoke", args |-> <<outcome>>]
FallbackCall(outcome) == [fn |-> "llm.invoke", args |-> <<outcome>>]

ReactAgentNode ==
    /\ run.pc = "react_agent"
    /\ IF react_agent_answers(run.state)
       THEN \/ \E answer \in Answers :
                  Return("react_agent", react_agent_node(run.state, answer),
                         <<AgentCall("returned")>>)
            \/ \E answer \in Answers :
                  Return("react_agent", react_agent_node(run.state, answer),
                         <<AgentCall("raised"), FallbackCall("returned")>>)
            \/ Raise("react_agent",
                     <<AgentCall("raised"), FallbackCall("raised")>>)
       ELSE Return("react_agent", react_agent_node(run.state, <<>>), <<>>)
    /\ UNCHANGED <<storeVars, before, nruns, thr, chatVars>>

\* Reads the store (get_memory) and asks the LLM
ProductBuilderNode ==
    /\ run.pc = "product_builder"
    /\ IF is_product(run.state)
       THEN /\ lock[run.engine] = NoThread
            /\ \/ \E content \in Texts :
                     Return("product_builder",
                            product_builder_node(run.state, content), <<>>)
               \/ Raise("product_builder", <<>>)
       ELSE Return("product_builder",
                   product_builder_node(run.state, <<>>), <<>>)
    /\ UNCHANGED <<storeVars, before, nruns, thr, chatVars>>

ResearchPrecontextNode ==
    /\ run.pc = "research_precontext"
    /\ IF is_research(run.state)
       THEN \/ \E plan \in Texts :
                  Return("research_precontext",
                         research_precontext_node(run.state, plan), <<>>)
            \/ Raise("research_precontext", <<>>)
       ELSE Return("research_precontext",
                   research_precontext_node(run.state, <<>>), <<>>)
    /\ UNCHANGED <<storeVars, before, nruns, thr, chatVars>>

ResearchAgentNode ==
    /\ run.pc = "research_agent"
    /\ IF is_research(run.state)
       THEN \/ \E answer \in Texts :
                  Return("research_agent",
                         research_agent_node(run.state, answer), <<>>)
            \/ Raise("research_agent", <<>>)
       ELSE Return("research_agent", research_agent_node(run.state, <<>>),
                   <<>>)
    /\ UNCHANGED <<storeVars, before, nruns, thr, chatVars>>

\* The writer's call of the LLM and what json.loads made of the reply
WriterCall(reply) == [fn |-> "writer.llm.invoke", args |-> <<reply>>]

WriterNode ==
    /\ run.pc = "writer"
    /\ IF writer_asks(run.state)
       THEN \/ \E reply \in WriterReplies :
                  Return("writer", writer_node(run.state, reply),
                         <<WriterCall(reply)>>)
            \/ Raise("writer", <<>>)
       ELSE Return("writer",
                   writer_node(run.state, [parsed |-> FALSE]), <<>>)
    /\ UNCHANGED <<storeVars, before, nruns, thr, chatVars>>

\* The arguments memory_write_node would pass with save_memory's default
\* category
memory_write_args_default_category(state) ==
    [user_id  |-> Get(state, "user_id", "default_user"),
     snippet  |-> Get(state, "memory_to_save", None),
     category |-> "general"]

\* The arguments memory_write_node passes to save_memory
memory_write_args(state) ==
    [user_id  |-> Get(state, "user_id", "default_user"),
     snippet  |-> Get(state, "memory_to_save", None),
     category |-> Get(state, "mode", "docs")]

MemoryWriteNode ==
    /\ run.pc = "memory_write"
    /\ \E a \in {memory_write_args(run.state)} :
          IF Truthy(a.snippet)
          THEN /\ lock[run.engine] = NoThread
               /\ \E out \in {save_memory(mem[run.engine], a.user_id,
                                          a.snippet[1], a.category, None,
                                          clock + 1)} :
                     Complete(run.engine, out,
                              IF out.result THEN clock + 1 ELSE clock,
                              [op |-> "save", user |-> a.user_id,
                               snippet |-> a.snippet[1],
                               category |-> a.category, score |-> None,
                               result |-> out.result])
               /\ Return("memory_write", NoUpdate,
                         <<[fn |-> "save_memory",
                            args |-> <<a.user_id, a.snippet[1],
                                       a.category>>]>>)
          ELSE /\ Return("memory_write", NoUpdate, <<>>)
               /\ UNCHANGED storeVars
    /\ UNCHANGED <<before, nruns, thr, chatVars>>

NextRun ==
    \/ \E e \in Engines, q \in Questions, u \in Users, m \in Modes,
          v \in VideoUrls : Run(e, q, u, m, v)
    \/ \E e \in Engines, q \in Questions, u \in Users :
          InvokeWithoutMode(e, q, u)
    \/ RouterNode
    \/ MemoryReadNode
    \/ RetrieverNode
    \/ VideoPrecontextNode
    \/ VideoChapterNode
    \/ ToolsNode
    \/ ReactAgentNode
    \/ ProductBuilderNode
    \/ ResearchPrecontextNode
    \/ ResearchAgentNode
    \/ WriterNode
    \/ MemoryWriteNode

SpecRun == InitRun /\ [][NextRun]_vars

-----------------------------------------------------------------------------
(* Product runs one after another (specification SpecProduct)              *)
(* Runs in product mode only, with questions shorter and longer than the   *)
(* 100 characters the writer keeps, on a store that is empty, or full of   *)
(* snippets with heuristic scores, or full of snippets scored 5.0.         *)

LongLen == 101

\* LongLen characters in words of four; the 100th is a space
Q_long == [i \in 1..LongLen |-> IF i % 5 = 0 THEN " " ELSE "a"]
Q_empty == <<>>
ProductQuestions == {Q_empty, Q_todo, Q_long}

\* The dict of a store on which save_memory was called k times for user u1
\* with score 5.0
RECURSIVE FilledWithBest(_)
FilledWithBest(k) ==
    IF k = 0 THEN EmptyDict
    ELSE save_memory(FilledWithBest(k - 1), "u1", Filler(k), "product",
                     Some(50), k).store

ProductDicts == {EmptyDict, FilledBy(MAX_MEMORIES_PER_USER),
                 FilledWithBest(MAX_MEMORIES_PER_USER)}

InitProduct ==
    \E d \in ProductDicts :
        /\ disk = IF d = EmptyDict THEN NoFile ELSE JsonFile(d)
        /\ mem = [s \in Stores |-> load_at(disk, MAX_MEMORIES_PER_USER)]
        /\ lock = [s \in Stores |-> NoThread]
        /\ clock = MAX_MEMORIES_PER_USER
        /\ ret = [op |-> "none"]
        /\ nops = 0
        /\ run = NoRun
        /\ before = <<mem, disk>>
        /\ nruns = 0
        /\ thr = [t \in Threads |-> IdleThread]
        /\ NoChat

NextProduct ==
    \/ \E e \in Engines, q \in ProductQuestions, u \in Users, v \in VideoUrls :
          Run(e, q, u, "product", v)
    \/ RouterNode
    \/ ProductBuilderNode
    \/ WriterNode
    \/ MemoryWriteNode

SpecProduct == InitProduct /\ [][NextProduct]_vars

-----------------------------------------------------------------------------
(* Runs with the research agent's tool loop (specification SpecLoop)       *)
(* research_agent_node invokes a tool-calling agent with recursion_limit   *)
(* 15.  The agent is a graph of its own that alternates a step of the LLM  *)
(* and a step of the tools the LLM asked for; it ends with the LLM step    *)
(* that asks for no tool.  The limit counts these steps: when it is        *)
(* reached and the agent has not ended, agent.invoke raises                *)
(* GraphRecursionError, which the node's `except Exception` answers with   *)
(* the fallback prompt.  Each step is logged in run.calls.                 *)

RECURSION_LIMIT == 15

AgentStepCall(kind) == [fn |-> "agent.step", args |-> <<kind>>]

\* The number of steps the agent has taken in this run
RECURSIVE AgentSteps(_)
AgentSteps(calls) ==
    IF calls = <<>> THEN 0
    ELSE (IF Head(calls).fn = "agent.step" THEN 1 ELSE 0)
         + AgentSteps(Tail(calls))

\* The agent's steps alternate: the LLM first, then the tools it asked for
NextStepKind(steps) == IF steps % 2 = 0 THEN "llm" ELSE "tools"

\* An agent that is cut off only after twenty steps
out_of_steps_at_twenty(steps) == steps >= 20

\* Whether the agent has used up the steps recursion_limit allows
out_of_steps(steps) == steps >= RECURSION_LIMIT

\* One step of the agent that does not end it: the LLM asks for a tool, or
\* the tools run
ResearchAgentStep ==
    /\ run.pc = "research_agent"
    /\ is_research(run.state)
    /\ \E steps \in {AgentSteps(run.calls)} :
          /\ ~out_of_steps(steps)
          /\ \/ NextStepKind(steps) = "tools"
             \/ ~out_of_steps(steps + 1)
          /\ run' = [run EXCEPT
                        !.calls = Append(@, AgentStepCall(NextStepKind(steps)))]
    /\ UNCHANGED <<storeVars, before, nruns, thr, chatVars>>

\* The LLM step that asks for no tool ends the agent: agent.invoke returns
\* and the node returns the last message
ResearchAgentAnswers ==
    /\ run.pc = "research_agent"
    /\ is_research(run.state)
    /\ \E steps \in {AgentSteps(run.calls)} :
          /\ ~out_of_steps(steps)
          /\ NextStepKind(steps) = "llm"
          /\ \E answer \in Texts :
                Return("research_agent",
                       research_agent_node(run.state, answer),
                       <<AgentStepCall("llm"), AgentCall("returned")>>)
    /\ UNCHANGED <<storeVars, before, nruns, thr, chatVars>>

\* agent.invoke raises (GraphRecursionError when the last step allowed was
\* an LLM step that asked for a tool, or whatever the LLM or a tool
\* raised); the node asks the LLM with the fallback prompt
ResearchAgentFallsBack ==
    /\ run.pc = "research_agent"
    /\ is_research(run.state)
    /\ \E steps \in {AgentSteps(run.calls)} :
          \E made \in {IF out_of_steps(steps + 1) /\ NextStepKind(steps) = "llm"
                       THEN <<AgentStepCall("llm"), AgentCall("raised")>>
                       ELSE <<AgentCall("raised")>>} :
             \/ \E answer \in Texts :
                   Return("research_agent",
                          research_agent_node(run.state, answer),
                          Append(made, FallbackCall("returned")))
             \/ Raise("research_agent",
                      Append(made, FallbackCall("raised")))
    /\ UNCHANGED <<storeVars, before, nruns, thr, chatVars>>

\* A new installation: no memory file, an empty store
InitLoop ==
    /\ disk = NoFile
    /\ mem = [s \in Stores |-> load_at(disk, 0)]
    /\ lock = [s \in Stores |-> NoThread]
    /\ clock = 0
    /\ ret = [op |-> "none"]
    /\ nops = 0
    /\ run = NoRun
    /\ before = <<mem, disk>>
    /\ nruns = 0
    /\ thr = [t \in Threads |-> IdleThread]
    /\ NoChat

\* The steps of a run that has started
NodeStep ==
    \/ RouterNode
    \/ MemoryReadNode
    \/ RetrieverNode
    \/ VideoPrecontextNode
    \/ VideoChapterNode
    \/ ToolsNode
    \/ ReactAgentNode
    \/ ProductBuilderNode
    \/ ResearchPrecontextNode
    \/ ResearchAgentStep
    \/ ResearchAgentAnswers
    \/ ResearchAgentFallsBack
    \/ WriterNode
    \/ MemoryWriteNode

NextLoop ==
    \/ \E e \in Engines, q \in Questions, u \in Users, m \in Modes,
          v \in VideoUrls : Run(e, q, u, m, v)
    \/ NodeStep

\* What memory_write_node does to the run: it returns {} after save_memory
\* has returned, whatever save_memory did to the store
MemoryWriteReturns ==
    /\ run.pc = "memory_write"
    /\ \E a \in {memory_write_args(run.state)} :
          IF Truthy(a.snippet)
          THEN /\ lock[run.engine] = NoThread
               /\ Return("memory_write", NoUpdate,
                         <<[fn |-> "save_memory",
                            args |-> <<a.user_id, a.snippet[1],
                                       a.category>>]>>)
          ELSE Return("memory_write", NoUpdate, <<>>)

\* The steps of NodeStep as steps of the run
RunStep ==
    \/ RouterNode
    \/ MemoryReadNode
    \/ RetrieverNode
    \/ VideoPrecontextNode
    \/ VideoChapterNode
    \/ ToolsNode
    \/ ReactAgentNode
    \/ ProductBuilderNode
    \/ ResearchPrecontextNode
    \/ ResearchAgentStep
    \/ ResearchAgentAnswers
    \/ ResearchAgentFallsBack
    \/ WriterNode
    \/ MemoryWriteReturns

\* Every collaborator call returns or raises, and the engine then goes on:
\* a run that has started keeps taking steps while it has one to take
SpecLoop == InitLoop /\ [][NextLoop]_vars /\ WF_run(RunStep)

-----------------------------------------------------------------------------
(* Concurrent save_memory calls (specification SpecConc)                   *)
(* Each thread is the memory_write node of one run, calling save_memory on *)
(* the MemoryStore of its engine.  Every AgenticNodes object constructs a  *)
(* MemoryStore of its own: store instances have separate dicts and locks   *)
(* and share the file.  A call is cut where other threads can interleave:  *)
(* before the lock is taken, between the update of the dict and the dump   *)
(* of the dict to the file (another instance may write the file there),    *)
(* and at the release.  A dump is taken as one step.                       *)

ConcFillSizes == {0, 2}
ConcContents == {C_abcde, C_abcdf, C_short}
ConcCategories == {"docs"}

InitConc ==
    \E k \in ConcFillSizes :
        /\ disk = IF k = 0 THEN NoFile ELSE JsonFile(FilledBy(k))
        /\ mem = [s \in Stores |-> load_at(disk, k)]
        /\ lock = [s \in Stores |-> NoThread]
        /\ clock = k
        /\ ret = [op |-> "none"]
        /\ nops = 0
        /\ run = NoRun
        /\ before = <<mem, disk>>
        /\ nruns = 0
        /\ thr = [t \in Threads |-> IdleThread]
        /\ NoChat

\* The call returns to thread t
Returned(t, result) ==
    /\ thr' = [thr EXCEPT ![t].pc = "returned", ![t].result = result]
    /\ ret' = [op |-> "save", user |-> thr[t].user_id,
               snippet |-> thr[t].snippet, category |-> thr[t].category,
               score |-> None, result |-> result]
    /\ nops' = nops + 1

\* save_memory is entered by thread t on store instance s
CallSaveMemory(t, s, user_id, snippet, category) ==
    /\ thr[t].pc = "idle"
    /\ thr' = [thr EXCEPT ![t] = [pc |-> "called", store |-> s,
                                  user_id |-> user_id, snippet |-> snippet,
                                  category |-> category, result |-> FALSE]]
    /\ UNCHANGED <<storeVars, runVars, chatVars>>

\* `with self._lock:` is reached, or False is returned for a short snippet
AcquireLock(t) ==
    /\ thr[t].pc = "called"
    /\ IF thr[t].snippet = <<>> \/ Len(Strip(thr[t].snippet)) < 5
       THEN /\ Returned(t, FALSE)
            /\ UNCHANGED <<mem, disk, lock, clock>>
       ELSE /\ lock[thr[t].store] = NoThread
            /\ lock' = [lock EXCEPT ![thr[t].store] = t]
            /\ thr' = [thr EXCEPT ![t].pc = "locked"]
            /\ UNCHANGED <<mem, disk, clock, ret, nops>>
    /\ UNCHANGED <<runVars, chatVars>>

\* From _get_user_memories to _set_user_memories, or to `return False`
UpdateDict(t) ==
    /\ thr[t].pc = "locked"
    /\ lock[thr[t].store] = t
    /\ \E out \in {save_memory(mem[thr[t].store], thr[t].user_id,
                               thr[t].snippet, thr[t].category, None,
                               clock + 1)} :
          IF out.result
          THEN /\ mem' = [mem EXCEPT ![thr[t].store] = out.store]
               /\ clock' = clock + 1
               /\ thr' = [thr EXCEPT ![t].pc = "updated"]
               /\ UNCHANGED <<disk, lock, ret, nops>>
          ELSE /\ Returned(t, FALSE)
               /\ lock' = [lock EXCEPT ![thr[t].store] = NoThread]
               /\ UNCHANGED <<mem, disk, clock>>
    /\ UNCHANGED <<runVars, chatVars>>

\* _save, the release of the lock and `return True`
DumpAndRelease(t) ==
    /\ thr[t].pc = "updated"
    /\ lock[thr[t].store] = t
    /\ disk' = JsonFile(mem[thr[t].store])
    /\ lock' = [lock EXCEPT ![thr[t].store] = NoThread]
    /\ Returned(t, TRUE)
    /\ UNCHANGED <<mem, clock, runVars, chatVars>>

NextConc ==
    \/ \E t \in Threads, s \in Stores, u \in Users, c \in ConcContents,
          g \in ConcCategories : CallSaveMemory(t, s, u, c, g)
    \/ \E t \in Threads : AcquireLock(t)
    \/ \E t \in Threads : UpdateDict(t)
    \/ \E t \in Threads : DumpAndRelease(t)

SpecConc == InitConc /\ [][NextConc]_vars

-----------------------------------------------------------------------------
(* One store and the file it was constructed from (specification           *)
(* SpecDurable): the file is absent, was written by this version of the    *)
(* store, or is in the old format, a list of strings per user.             *)

LegacyFile ==
    [kind |-> "json",
     data |-> [u \in {"u1"} |-> JsonList(<<C_abcde, <<>>, Filler(1)>>)]]

DurableFiles == {NoFile, JsonFile(FilledBy(2)), LegacyFile}
DurableContents == {C_abcde, C_abcdf, C_short}
ConstructedAt == 2

InitDurable ==
    \E file \in DurableFiles :
        /\ disk = file
        /\ mem = [s \in Stores |-> load_at(file, ConstructedAt)]
        /\ lock = [s \in Stores |-> NoThread]
        /\ clock = ConstructedAt
        /\ ret = [op |-> "none"]
        /\ nops = 0
        /\ run = NoRun
        /\ before = <<mem, disk>>
        /\ nruns = 0
        /\ thr = [t \in Threads |-> IdleThread]
        /\ NoChat

DeleteMemory(s, user_id, content_hash) ==
    /\ nops < MaxOps
    /\ lock[s] = NoThread
    /\ \E out \in {delete_memory(mem[s], user_id, content_hash)} :
           Complete(s, out, clock,
                    [op |-> "delete_memory", user |-> user_id,
                     content_hash |-> content_hash])

ClearUserMemories(s, user_id) ==
    /\ nops < MaxOps
    /\ lock[s] = NoThread
    /\ \E out \in {clear_user_memories(mem[s], user_id)} :
           Complete(s, out, clock,
                    [op |-> "clear_user_memories", user |-> user_id])

NextDurable ==
    \/ \E u \in Users, c \in DurableContents :
          SaveMemory(1, u, c, "docs", None, 1) /\ UNCHANGED <<runVars, thr, chatVars>>
    \/ \E u \in Users, h \in Hashes, n \in NewScores :
          UpdateScore(1, u, h, n) /\ UNCHANGED <<runVars, thr, chatVars>>
    \/ \E u \in Users, h \in Hashes :
          DeleteMemory(1, u, h) /\ UNCHANGED <<runVars, thr, chatVars>>
    \/ \E u \in Users :
          ClearUserMemories(1, u) /\ UNCHANGED <<runVars, thr, chatVars>>

SpecDurable == InitDurable /\ [][NextDurable]_vars

-----------------------------------------------------------------------------
(* One store constructed from whatever file it finds, read and maintained  *)
(* through every public operation (specification SpecFile). Besides the    *)
(* files of SpecDurable the file may be unreadable, not JSON, a JSON array, *)
(* hold a number or a damaged entry for a user, or come from elsewhere with *)
(* more entries than the store keeps, in any order and with any score.      *)

C_five       == <<"a","b","c","d","e">>
C_fiveSpaced == <<" ","a","b","c","d","e"," ">>
C_four       == <<" ","a","b","c","d"," ">>

FileContents == {<<>>, C_fiveSpaced, C_four, C_abcdef}
FileCategories == {None, Some("product"), Some("")}

\* {"u1": ["a b c d e", "build0", ..., "build9", "a b c d f"]}
LongList ==
    <<C_abcde>> \o [i \in 1..10 |-> Filler(i)] \o <<C_abcdf>>

LegacyLongFile ==
    [kind |-> "json", data |-> [u \in {"u1"} |-> JsonList(LongList)]]

\* The same twelve contents as entries of the present format, with scores
\* from 1.0 to 5.0 in no order and three categories
ForeignScores == <<10, 45, 15, 45, 50, 30, 25, 20, 35, 40, 45, 30>>
ForeignCategories == <<"general", "product", "docs">>

ForeignRecord ==
    [i \in 1..12 |->
        MemorySnippet(LongList[i], ForeignScores[i], 1,
                      ForeignCategories[(i % 3) + 1])]

ForeignFile ==
    [kind |-> "json", data |-> [u \in {"u1"} |-> JsonDict(ForeignRecord)]]

\* {"u1": 5}
NumberFile == [kind |-> "json", data |-> [u \in {"u1"} |-> JsonNumber]]

\* {"u1": {"memories": [{"score": 3.0}]}}
DamagedFile ==
    [kind |-> "json",
     data |-> [u \in {"u1"} |-> JsonDict(<<[score |-> 30]>>)]]

\* content_hash arguments of update_score in SpecFile: two hashes the long
\* files hold and one they do not
FileHashes == Hashes \cup {compute_hash(C_abcdef)}

StoredFiles ==
    {NoFile, Unreadable, InvalidJson, NotAnObject, NumberFile, DamagedFile,
     LegacyLongFile, ForeignFile, JsonFile(FilledBy(2))}

InitFile ==
    \E file \in StoredFiles :
        /\ disk = file
        /\ mem = [s \in Stores |-> load_at(file, ConstructedAt)]
        /\ lock = [s \in Stores |-> NoThread]
        /\ clock = ConstructedAt
        /\ ret = [op |-> "none"]
        /\ nops = 0
        /\ run = NoRun
        /\ before = <<mem, disk>>
        /\ nruns = 0
        /\ thr = [t \in Threads |-> IdleThread]
        /\ NoChat

\* A read whose _get_user_memories raises: the with block releases the lock
\* and the exception reaches the caller
ReadRaises(call) ==
    /\ ret' = [call EXCEPT !.raised = "KeyError"]
    /\ nops' = nops + 1
    /\ UNCHANGED <<mem, disk, lock, clock>>

GetMemory(s, user_id, category) ==
    /\ nops < MaxOps
    /\ lock[s] = NoThread
    /\ IF get_user_memories_raises(mem[s], user_id)
       THEN ReadRaises([op |-> "get_memory", user |-> user_id,
                        category |-> category, raised |-> "",
                        result |-> <<>>])
       ELSE \E out \in {Outcome(get_memory(mem[s], user_id, category),
                                 mem[s], FALSE)} :
               Complete(s, out, clock,
                        [op |-> "get_memory", user |-> user_id,
                         category |-> category, raised |-> "",
                         result |-> out.result])

GetAllMemories(s, user_id) ==
    /\ nops < MaxOps
    /\ lock[s] = NoThread
    /\ IF get_user_memories_raises(mem[s], user_id)
       THEN ReadRaises([op |-> "get_all_memories", user |-> user_id,
                        raised |-> "", result |-> <<>>])
       ELSE \E out \in {get_all_memories(mem[s], user_id)} :
               Complete(s, out, clock,
                        [op |-> "get_all_memories", user |-> user_id,
                         raised |-> "", result |-> out.result])

GetMemoryStats(s, user_id) ==
    /\ nops < MaxOps
    /\ lock[s] = NoThread
    /\ IF get_user_memories_raises(mem[s], user_id)
       THEN ReadRaises([op |-> "get_memory_stats", user |-> user_id,
                        raised |-> "", result |-> <<>>])
       ELSE \E out \in {get_memory_stats(mem[s], user_id)} :
               Complete(s, out, clock,
                        [op |-> "get_memory_stats", user |-> user_id,
                         raised |-> "", result |-> out.result])

\* The maintenance operations are exercised on records from_dict accepts
NextFile ==
    \/ \E u \in Users, c \in FileCategories :
          GetMemory(1, u, c) /\ UNCHANGED <<runVars, thr, chatVars>>
    \/ \E u \in Users :
          GetAllMemories(1, u) /\ UNCHANGED <<runVars, thr, chatVars>>
    \/ \E u \in Users :
          GetMemoryStats(1, u) /\ UNCHANGED <<runVars, thr, chatVars>>
    \/ \E c \in FileContents :
          /\ ~get_user_memories_raises(mem[1], "u1")
          /\ SaveMemory(1, "u1", c, "docs", None, 1)
          /\ UNCHANGED <<runVars, thr, chatVars>>
    \/ \E h \in FileHashes, n \in NewScores :
          /\ ~get_user_memories_raises(mem[1], "u1")
          /\ UpdateScore(1, "u1", h, n)
          /\ UNCHANGED <<runVars, thr, chatVars>>
    \/ \E h \in Hashes :
          /\ ~get_user_memories_raises(mem[1], "u1")
          /\ DeleteMemory(1, "u1", h)
          /\ UNCHANGED <<runVars, thr, chatVars>>
    \/ ClearUserMemories(1, "u1") /\ UNCHANGED <<runVars, thr, chatVars>>

SpecFile == InitFile /\ [][NextFile]_vars

-----------------------------------------------------------------------------
(* One store used by two users (specification SpecUsers)                   *)
(* The store is constructed from no file, or from a file the store wrote   *)
(* after saves of both users; u2 had saved what u1 also holds.             *)

BothUsersDict ==
    save_memory(save_memory(FilledBy(2), "u2", Filler(1), "docs", None, 3).store,
                "u2", C_abcdf, "docs", None, 4).store

UsersFiles == {NoFile, JsonFile(BothUsersDict)}
UsersContents == {C_abcde, C_abcdf, Filler(1)}
UsersConstructedAt == 4

InitUsers ==
    \E file \in UsersFiles :
        /\ disk = file
        /\ mem = [s \in Stores |-> load_at(file, UsersConstructedAt)]
        /\ lock = [s \in Stores |-> NoThread]
        /\ clock = UsersConstructedAt
        /\ ret = [op |-> "none"]
        /\ nops = 0
        /\ run = NoRun
        /\ before = <<mem, disk>>
        /\ nruns = 0
        /\ thr = [t \in Threads |-> IdleThread]
        /\ NoChat

NextUsers ==
    \/ \E u \in Users, c \in UsersContents :
          SaveMemory(1, u, c, "docs", None, 1) /\ UNCHANGED <<runVars, thr, chatVars>>
    \/ \E u \in Users, h \in Hashes, n \in NewScores :
          UpdateScore(1, u, h, n) /\ UNCHANGED <<runVars, thr, chatVars>>
    \/ \E u \in Users, h \in Hashes :
          DeleteMemory(1, u, h) /\ UNCHANGED <<runVars, thr, chatVars>>
    \/ \E u \in Users :
          ClearUserMemories(1, u) /\ UNCHANGED <<runVars, thr, chatVars>>
    \/ \E u \in Users :
          GetMemory(1, u, None) /\ UNCHANGED <<runVars, thr, chatVars>>

SpecUsers == InitUsers /\ [][NextUsers]_vars

-----------------------------------------------------------------------------
(* save_memory without a score argument on an empty store, for contents    *)
(* around the two length limits of _score_memory, with and without an      *)
(* action word and a generic phrase (specification SpecScore)              *)

B_build    == <<"b","u","i","l","d">>
B_Build    == <<"B","u","i","l","d">>
B_wants    == <<"u","s","e","r"," ","w","a","n","t","s">>
B_interest == <<"g","e","n","e","r","a","l"," ","i","n","t","e","r","e","s","t">>
B_plain    == <<"p","l","a","i","n"," ","t","e","x","t">>

\* A body and whether it holds an action word and a generic phrase: "user
\* wants" holds the action word "want"
ScoreBodies ==
    {[body |-> B_build,    action |-> TRUE,  generic |-> FALSE],
     [body |-> B_Build,    action |-> TRUE,  generic |-> FALSE],
     [body |-> B_wants,    action |-> TRUE,  generic |-> TRUE],
     [body |-> B_interest, action |-> FALSE, generic |-> TRUE],
     [body |-> B_plain,    action |-> FALSE, generic |-> FALSE]}

ScoreLengths == {19, 20, 50, 51}

\* The body followed by dots up to the length n
Pad(body, n) == body \o [i \in 1..(n - Len(body)) |-> "."]

\* The snippets passed to save_memory: the padded bodies, and the padded
\* bodies of length 19 and 50 between two blanks, with what is known of each
\* by construction
ScoreCases ==
    {[snippet |-> Pad(b.body, n), length |-> n,
      action |-> b.action, generic |-> b.generic] :
        b \in ScoreBodies, n \in ScoreLengths}
    \cup
    {[snippet |-> <<" ">> \o Pad(b.body, n) \o <<" ">>, length |-> n,
      action |-> b.action, generic |-> b.generic] :
        b \in ScoreBodies, n \in {19, 50}}

ScoreCategories == {"product", "docs", "general", "video"}

InitScore ==
    \E c \in ScoreCases, category \in ScoreCategories :
        /\ disk = NoFile
        /\ mem = [s \in Stores |-> EmptyDict]
        /\ lock = [s \in Stores |-> NoThread]
        /\ clock = 0
        /\ ret = [op |-> "pending", user |-> "u1", snippet |-> c.snippet,
                  category |-> category]
        /\ nops = 0
        /\ run = NoRun
        /\ before = <<mem, disk>>
        /\ nruns = 0
        /\ thr = [t \in Threads |-> IdleThread]
        /\ NoChat

NextScore ==
    /\ ret.op = "pending"
    /\ SaveMemory(1, ret.user, ret.snippet, ret.category, None, 1)
    /\ UNCHANGED <<runVars, thr, chatVars>>

SpecScore == InitScore /\ [][NextScore]_vars

-----------------------------------------------------------------------------
(* chat_history.py: ChatMessage, ChatSession and ChatHistoryManager. A      *)
(* message is its role, content and mode, a session its id, user, mode and  *)
(* messages; timestamps and metadata are left out.                         *)

MaxChatOps == 4

\* content[:500] in ChatSession.get_context
ContextCap == 500

ChatMessage(role, content, mode) ==
    [role |-> role, content |-> content, mode |-> mode]

\* ChatMessage.to_dict and ChatMessage.from_dict, key by key
message_to_dict(m) ==
    [role |-> m.role, content |-> m.content, mode |-> m.mode]

message_from_dict(data) ==
    ChatMessage(data.role, data.content,
                IF "mode" \in DOMAIN data THEN data.mode ELSE "docs")

ChatSession(session_id, user_id, mode) ==
    [session_id |-> session_id, user_id |-> user_id, mode |-> mode,
     messages |-> <<>>]

\* ChatSession.add_message: the message takes the mode of the session
session_add_message(session, role, content) ==
    [session EXCEPT
        !.messages = Append(@, ChatMessage(role, content, session.mode))]

\* seq[-n:] of Python
LastSlice(seq, n) ==
    LET start == IF -n < 0 THEN Max(Len(seq) - n, 0) ELSE Min(-n, Len(seq))
    IN  SubSeq(seq, start + 1, Len(seq))

S_User      == <<"U","s","e","r">>
S_Assistant == <<"A","s","s","i","s","t","a","n","t">>

\* f"{prefix}: {msg.content[:500]}"
render(msg) ==
    (IF msg.role = "user" THEN S_User ELSE S_Assistant)
        \o <<":", " ">> \o Take(msg.content, ContextCap)

\* ChatSession.get_context
get_context(session, max_messages) ==
    LET recent == LastSlice(session.messages, max_messages)
    IN  Join(<<"\n", "\n">>, [i \in DOMAIN recent |-> render(recent[i])])

\* ChatSession.to_dict and ChatSession.from_dict
session_to_dict(session) ==
    [session_id |-> session.session_id,
     user_id    |-> session.user_id,
     mode       |-> session.mode,
     messages   |-> [i \in DOMAIN session.messages |->
                        message_to_dict(session.messages[i])]]

session_from_dict(data) ==
    [session_id |-> data.session_id,
     user_id    |-> data.user_id,
     mode       |-> IF "mode" \in DOMAIN data THEN data.mode ELSE "docs",
     messages   |-> [i \in DOMAIN data.messages |->
                        message_from_dict(data.messages[i])]]

\* user_dir / f"{session_id}.json"
PathOf(user_id, session_id) == <<user_id, session_id>>

\* f"session_{uuid.uuid4().hex[:12]}": the k-th id produced, never one that
\* was produced before
Uuid(k) ==
    <<"session_1", "session_2", "session_3", "session_4", "session_5",
      "session_6">>[k]

\* The id of a session persisted by an earlier process
OldId == "session_0"

\* d without the key k
Without(d, k) == [x \in DOMAIN d \ {k} |-> d[x]]

\* d with d[k] = v
With(d, k, v) == [x \in DOMAIN d \cup {k} |-> IF x = k THEN v ELSE d[x]]

\* load_session(user_id, session_id): None, or the session read from the file
load_session(fs, user_id, session_id) ==
    IF PathOf(user_id, session_id) \notin DOMAIN fs THEN None
    ELSE Some(session_from_dict(fs[PathOf(user_id, session_id)]))

\* save_session(session): the file of the session's own user and id
save_session(fs, session) ==
    With(fs, PathOf(session.user_id, session.session_id),
         session_to_dict(session))

\* if session_id and session_id in self._active_sessions
IsActive(session_id) ==
    session_id # None /\ session_id[1] # "" /\ session_id[1] \in DOMAIN active

-----------------------------------------------------------------------------
(* The manager used by one caller at a time (specification SpecChat): the  *)
(* caller keeps the ChatSession objects the manager returned and may pass  *)
(* any of them to save_session or append to it, as streamlit_app.py does.  *)

M_hi   == <<"h","i">>
M_long == Pad(<<"o","k">>, ContextCap + 1)
M_bye  == <<"b","y","e">>

\* history/u1/session_0.json left by an earlier process
OldSession ==
    session_add_message(
        session_add_message(ChatSession(OldId, "u1", "docs"), "user", M_hi),
        "assistant", M_long)

ChatInits == {NoFiles, save_session(NoFiles, OldSession)}
ChatCallers == {<<"u1", "docs">>, <<"u2", "video">>}
ChatIds == {None, Some(OldId)}
ContextSizes == {0, 1, 10}

InitChat ==
    \E fs \in ChatInits :
        /\ objs = <<>>
        /\ active = NoSessions
        /\ files = fs
        /\ uuids = 0
        /\ cret = [op |-> "none"]
        /\ cops = 0
        /\ cthr = [t \in Threads |-> IdleChatThread]
        /\ mem = [s \in Stores |-> EmptyDict]
        /\ disk = NoFile
        /\ lock = [s \in Stores |-> NoThread]
        /\ clock = 0
        /\ ret = [op |-> "none"]
        /\ nops = 0
        /\ run = NoRun
        /\ before = <<mem, disk>>
        /\ nruns = 0
        /\ thr = [t \in Threads |-> IdleThread]

\* A call of the single caller completes
CallCompletes == cops < MaxChatOps /\ cops' = cops + 1

\* create_session: a new object under a new id, registered as active
Create(user_id, mode) ==
    /\ objs' = Append(objs, ChatSession(Uuid(uuids + 1), user_id, mode))
    /\ active' = With(active, Uuid(uuids + 1), Len(objs) + 1)
    /\ uuids' = uuids + 1

CreateSession(user_id, mode) ==
    /\ CallCompletes
    /\ Create(user_id, mode)
    /\ cret' = [op |-> "create_session", user_id |-> user_id, mode |-> mode,
                result |-> Len(objs) + 1]
    /\ UNCHANGED <<files, cthr>>

GetOrCreateSession(user_id, mode, session_id) ==
    /\ CallCompletes
    /\ IF IsActive(session_id)
       THEN /\ cret' = [op |-> "get_or_create_session", user_id |-> user_id,
                        mode |-> mode, session_id |-> session_id,
                        result |-> active[session_id[1]]]
            /\ UNCHANGED <<objs, active, uuids>>
       ELSE IF /\ session_id # None /\ session_id[1] # ""
               /\ load_session(files, user_id, session_id[1]) # None
       THEN /\ objs' = Append(objs,
                          load_session(files, user_id, session_id[1])[1])
            /\ active' = With(active, session_id[1], Len(objs) + 1)
            /\ cret' = [op |-> "get_or_create_session", user_id |-> user_id,
                        mode |-> mode, session_id |-> session_id,
                        result |-> Len(objs) + 1]
            /\ UNCHANGED uuids
       ELSE /\ Create(user_id, mode)
            /\ cret' = [op |-> "get_or_create_session", user_id |-> user_id,
                        mode |-> mode, session_id |-> session_id,
                        result |-> Len(objs) + 1]
    /\ UNCHANGED <<files, cthr>>

\* load_session called by the caller: the object is returned, not registered
LoadSession(user_id, session_id) ==
    /\ CallCompletes
    /\ IF load_session(files, user_id, session_id) = None
       THEN /\ cret' = [op |-> "load_session", user_id |-> user_id,
                        session_id |-> session_id, result |-> 0]
            /\ UNCHANGED objs
       ELSE /\ objs' = Append(objs, load_session(files, user_id, session_id)[1])
            /\ cret' = [op |-> "load_session", user_id |-> user_id,
                        session_id |-> session_id, result |-> Len(objs) + 1]
    /\ UNCHANGED <<active, files, uuids, cthr>>

\* ChatHistoryManager.add_message: append to the active session, then save
AddMessage(session_id, role, content) ==
    /\ CallCompletes
    /\ IF session_id \in DOMAIN active
       THEN /\ objs' = [objs EXCEPT ![active[session_id]] =
                           session_add_message(@, role, content)]
            /\ files' = save_session(files, objs'[active[session_id]])
            /\ cret' = [op |-> "add_message", session_id |-> session_id,
                        role |-> role, content |-> content,
                        session |-> active[session_id]]
       ELSE /\ cret' = [op |-> "add_message", session_id |-> session_id,
                        role |-> role, content |-> content, session |-> 0]
            /\ UNCHANGED <<objs, files>>
    /\ UNCHANGED <<active, uuids, cthr>>

\* ChatSession.add_message called on an object the caller holds
SessionAddMessage(ref, role, content) ==
    /\ CallCompletes
    /\ ref \in DOMAIN objs
    /\ objs' = [objs EXCEPT ![ref] = session_add_message(@, role, content)]
    /\ cret' = [op |-> "session.add_message", session |-> ref,
                role |-> role, content |-> content]
    /\ UNCHANGED <<active, files, uuids, cthr>>

\* save_session called on an object the caller holds
SaveSession(ref) ==
    /\ CallCompletes
    /\ ref \in DOMAIN objs
    /\ files' = save_session(files, objs[ref])
    /\ cret' = [op |-> "save_session", session |-> ref]
    /\ UNCHANGED <<objs, active, uuids, cthr>>

GetConversationContext(session_id, max_messages) ==
    /\ CallCompletes
    /\ cret' = [op |-> "get_conversation_context", session_id |-> session_id,
                max_messages |-> max_messages,
                result |-> IF session_id \in DOMAIN active
                           THEN get_context(objs[active[session_id]],
                                            max_messages)
                           ELSE <<>>]
    /\ UNCHANGED <<objs, active, files, uuids, cthr>>

ClearSession(session_id) ==
    /\ CallCompletes
    /\ active' = Without(active, session_id)
    /\ cret' = [op |-> "clear_session", session_id |-> session_id]
    /\ UNCHANGED <<objs, files, uuids, cthr>>

\* delete_session: clear_session, then unlink the file in the directory of
\* the user passed
DeleteSession(user_id, session_id) ==
    /\ CallCompletes
    /\ active' = Without(active, session_id)
    /\ files' = Without(files, PathOf(user_id, session_id))
    /\ cret' = [op |-> "delete_session", user_id |-> user_id,
                session_id |-> session_id]
    /\ UNCHANGED <<objs, uuids, cthr>>

NextChat ==
    \/ \E c \in ChatCallers, id \in ChatIds :
          GetOrCreateSession(c[1], c[2], id)
              /\ UNCHANGED <<storeVars, runVars, thr>>
    \/ CreateSession("u2", "video") /\ UNCHANGED <<storeVars, runVars, thr>>
    \/ LoadSession("u1", OldId) /\ UNCHANGED <<storeVars, runVars, thr>>
    \/ AddMessage(OldId, "user", M_bye)
          /\ UNCHANGED <<storeVars, runVars, thr>>
    \/ SessionAddMessage(1, "assistant", M_hi)
          /\ UNCHANGED <<storeVars, runVars, thr>>
    \/ \E ref \in 1..2 :
          SaveSession(ref) /\ UNCHANGED <<storeVars, runVars, thr>>
    \/ \E n \in ContextSizes :
          GetConversationContext(OldId, n)
              /\ UNCHANGED <<storeVars, runVars, thr>>
    \/ ClearSession(OldId) /\ UNCHANGED <<storeVars, runVars, thr>>
    \/ \E u \in Users :
          DeleteSession(u, OldId) /\ UNCHANGED <<storeVars, runVars, thr>>

SpecChat == InitChat /\ [][NextChat]_vars

-----------------------------------------------------------------------------
(* Two threads on one manager (specification SpecChatConc). Each calls     *)
(* get_or_create_session("u1", "docs", "session_0"), then add_message with *)
(* the id of the session it got and a message of its own, then may call    *)
(* save_session on that session. get_or_create_session and add_message     *)
(* take no lock, so another thread may run between their statements; the   *)
(* registration in create_session and the write in save_session run under  *)
(* ChatHistoryManager._lock and are one step each.                         *)

M_of(t) == <<"f","r","o","m"," ", t>>

\* The single message history/u1/session_0.json holds at the start
ShortOldSession ==
    session_add_message(ChatSession(OldId, "u1", "docs"), "user", M_hi)

\* The manager before the two threads start: nothing on disk; the file of
\* session_0 on disk; or the file on disk and the session already active
ChatConcInits ==
    {[objs |-> <<>>, active |-> NoSessions, files |-> NoFiles],
     [objs |-> <<>>, active |-> NoSessions,
      files |-> save_session(NoFiles, ShortOldSession)],
     [objs |-> <<ShortOldSession>>, active |-> With(NoSessions, OldId, 1),
      files |-> save_session(NoFiles, ShortOldSession)]}

InitChatConc ==
    \E i \in ChatConcInits :
        /\ objs = i.objs
        /\ active = i.active
        /\ files = i.files
        /\ uuids = 0
        /\ cret = [op |-> "none"]
        /\ cops = 0
        /\ cthr = [t \in Threads |-> IdleChatThread]
        /\ mem = [s \in Stores |-> EmptyDict]
        /\ disk = NoFile
        /\ lock = [s \in Stores |-> NoThread]
        /\ clock = 0
        /\ ret = [op |-> "none"]
        /\ nops = 0
        /\ run = NoRun
        /\ before = <<mem, disk>>
        /\ nruns = 0
        /\ thr = [t \in Threads |-> IdleThread]

\* Thread t moves to pc with the fields given
Goto(t, pc, session, loaded, target, appended) ==
    cthr' = [cthr EXCEPT ![t] = [pc |-> pc, session |-> session,
                                 loaded |-> loaded, target |-> target,
                                 appended |-> appended]]

\* get_or_create_session, lines 155-156: the test, and the return when the
\* id is active
GocCheck(t) ==
    /\ cthr[t].pc = "idle"
    /\ IF IsActive(Some(OldId))
       THEN Goto(t, "add_lookup", active[OldId], 0, 0, FALSE)
       ELSE Goto(t, "goc_load", 0, 0, 0, FALSE)
    /\ UNCHANGED <<objs, active, files, uuids, cret, cops>>

\* lines 159-161: load_session reads the file into a new object
GocLoad(t) ==
    /\ cthr[t].pc = "goc_load"
    /\ IF load_session(files, "u1", OldId) = None
       THEN /\ Goto(t, "goc_create", 0, 0, 0, FALSE)
            /\ UNCHANGED objs
       ELSE /\ objs' = Append(objs, load_session(files, "u1", OldId)[1])
            /\ Goto(t, "goc_assign", 0, Len(objs) + 1, 0, FALSE)
    /\ UNCHANGED <<active, files, uuids, cret, cops>>

\* lines 162-163: the loaded object is registered and returned
GocAssign(t) ==
    /\ cthr[t].pc = "goc_assign"
    /\ active' = With(active, OldId, cthr[t].loaded)
    /\ Goto(t, "add_lookup", cthr[t].loaded, 0, 0, FALSE)
    /\ UNCHANGED <<objs, files, uuids, cret, cops>>

\* line 166: create_session
GocCreate(t) ==
    /\ cthr[t].pc = "goc_create"
    /\ Create("u1", "docs")
    /\ Goto(t, "add_lookup", Len(objs) + 1, 0, 0, FALSE)
    /\ UNCHANGED <<files, cret, cops>>

\* add_message, line 176: session = self._active_sessions.get(session_id)
AddLookup(t) ==
    /\ cthr[t].pc = "add_lookup"
    /\ IF objs[cthr[t].session].session_id \in DOMAIN active
       THEN Goto(t, "add_append", cthr[t].session, 0,
                 active[objs[cthr[t].session].session_id], FALSE)
       ELSE Goto(t, "returned", cthr[t].session, 0, 0, FALSE)
    /\ UNCHANGED <<objs, active, files, uuids, cret, cops>>

\* line 178: session.add_message(role, content, metadata)
AddAppend(t) ==
    /\ cthr[t].pc = "add_append"
    /\ objs' = [objs EXCEPT ![cthr[t].target] =
                   session_add_message(@, "user", M_of(t))]
    /\ Goto(t, "add_save", cthr[t].session, 0, cthr[t].target, TRUE)
    /\ UNCHANGED <<active, files, uuids, cret, cops>>

\* line 179: self.save_session(session)
AddSave(t) ==
    /\ cthr[t].pc = "add_save"
    /\ files' = save_session(files, objs[cthr[t].target])
    /\ Goto(t, "returned", cthr[t].session, 0, cthr[t].target, TRUE)
    /\ UNCHANGED <<objs, active, uuids, cret, cops>>

\* save_session on the session get_or_create_session returned
SaveOwn(t) ==
    /\ cthr[t].pc = "returned"
    /\ files' = save_session(files, objs[cthr[t].session])
    /\ Goto(t, "done", cthr[t].session, 0, cthr[t].target,
            cthr[t].appended)
    /\ UNCHANGED <<objs, active, uuids, cret, cops>>

\* The thread makes no further call
Finish(t) ==
    /\ cthr[t].pc = "returned"
    /\ Goto(t, "done", cthr[t].session, 0, cthr[t].target,
            cthr[t].appended)
    /\ UNCHANGED <<objs, active, files, uuids, cret, cops>>

NextChatConc ==
    \/ \E t \in Threads : GocCheck(t) /\ UNCHANGED <<storeVars, runVars, thr>>
    \/ \E t \in Threads : GocLoad(t) /\ UNCHANGED <<storeVars, runVars, thr>>
    \/ \E t \in Threads : GocAssign(t) /\ UNCHANGED <<storeVars, runVars, thr>>
    \/ \E t \in Threads : GocCreate(t) /\ UNCHANGED <<storeVars, runVars, thr>>
    \/ \E t \in Threads : AddLookup(t) /\ UNCHANGED <<storeVars, runVars, thr>>
    \/ \E t \in Threads : AddAppend(t) /\ UNCHANGED <<storeVars, runVars, thr>>
    \/ \E t \in Threads : AddSave(t) /\ UNCHANGED <<storeVars, runVars, thr>>
    \/ \E t \in Threads : SaveOwn(t) /\ UNCHANGED <<storeVars, runVars, thr>>
    \/ \E t \in Threads : Finish(t) /\ UNCHANGED <<storeVars, runVars, thr>>

SpecChatConc == InitChatConc /\ [][NextChatConc]_vars

-----------------------------------------------------------------------------
(* Properties of the MemoryStore operations (specification Spec)           *)

Range(seq) == {seq[i] : i \in DOMAIN seq}

\* The record of a user in a dict, and the contents it holds
Record(d, user_id) == IF user_id \in DOMAIN d THEN d[user_id] ELSE <<>>
Held(d, user_id) == {m.content : m \in Range(Record(d, user_id))}

\* Lower-cased and trimmed
Normalized(content) == Strip(Lower(content))

\* The step just taken completed a save_memory call on store 1
SaveStep == nops' = nops + 1 /\ ret'.op = "save"

StoreUnchanged == mem' = mem /\ disk' = disk

WithinLimits(d) ==
    \A u \in DOMAIN d :
        /\ Len(d[u]) <= 10
        /\ \A m \in Range(d[u]) : m.score >= 20

\* C1: after any sequence of save calls on an initially empty store, every
\* user's record, in memory and in the file, holds at most 10 snippets and
\* every held snippet has a score of at least 2.0.
C1_AtMostTenAboveThreshold ==
    /\ WithinLimits(mem[1])
    /\ WithinLimits(load(disk))

\* An accepted save into a full record: the record still holds 10, the new
\* snippet among them and one of the older ones gone.
C1_Witness ==
    /\ ret.op = "save" /\ ret.result /\ ret.user = "u1"
    /\ Len(Record(mem[1], "u1")) = 10
    /\ Strip(ret.snippet) \in Held(mem[1], "u1")
    /\ \E i \in 1..9 : Filler(i) \notin Held(mem[1], "u1")

\* C5: a save whose candidate has the normalized content of a snippet the
\* user's record already holds returns False and leaves the record unchanged,
\* in memory and in the file (so an accepted save repeated at once changes
\* nothing).
C5_ExactDuplicateRejected ==
    [][ (SaveStep /\ \E m \in Range(Record(mem[1], ret'.user)) :
                        Normalized(m.content) = Normalized(ret'.snippet))
        => (ret'.result = FALSE /\ StoreUnchanged) ]_vars

\* A save rejected although the text differs from the held one in case
C5_Witness ==
    /\ ret.op = "save" /\ ret.result = FALSE
    /\ Len(Strip(ret.snippet)) >= 5
    /\ Strip(ret.snippet) \notin Held(mem[1], ret.user)
    /\ \E c \in Held(mem[1], ret.user) : Normalized(c) = Normalized(ret.snippet)

\* Words of a text: whitespace-split, lower-case
Tokens(content) == WordSet(Lower(content))

\* common tokens / the larger token set >= num/den
ShareAtLeast(a, b, num, den) ==
    \E ta \in {Tokens(a)}, tb \in {Tokens(b)} :
        /\ ta # {} /\ tb # {}
        /\ den * Cardinality(ta \cap tb)
             >= num * Max(Cardinality(ta), Cardinality(tb))

\* common tokens / the larger token set > num/den
ShareMoreThan(a, b, num, den) ==
    \E ta \in {Tokens(a)}, tb \in {Tokens(b)} :
        /\ ta # {} /\ tb # {}
        /\ den * Cardinality(ta \cap tb)
             > num * Max(Cardinality(ta), Cardinality(tb))

\* C6 as stated: a candidate sharing at least 80% of its tokens with a held
\* snippet (exactly 80% included) is rejected and the record is unchanged.
C6_AtLeastEightyPercentRejected ==
    [][ (SaveStep /\ Len(Strip(ret'.snippet)) >= 5
                  /\ \E m \in Range(Record(mem[1], ret'.user)) :
                        ShareAtLeast(ret'.snippet, m.content, 8, 10))
        => (ret'.result = FALSE /\ StoreUnchanged) ]_vars

\* C6 as amended: a candidate sharing strictly more than 80% of its tokens
\* with a held snippet of the same user is rejected and the record is
\* unchanged.
C6_MoreThanEightyPercentRejected ==
    [][ (SaveStep /\ \E m \in Range(Record(mem[1], ret'.user)) :
                        ShareMoreThan(ret'.snippet, m.content, 8, 10))
        => (ret'.result = FALSE /\ StoreUnchanged) ]_vars

\* A save rejected for a held snippet of other normalized content that
\* shares more than 80% of the tokens
C6_Witness ==
    /\ ret.op = "save" /\ ret.result = FALSE
    /\ \A c \in Held(mem[1], ret.user) : Normalized(c) # Normalized(ret.snippet)
    /\ \E c \in Held(mem[1], ret.user) : ShareMoreThan(ret.snippet, c, 8, 10)

\* C7: save_memory returns True exactly when the snippet was saved: after a
\* True the record holds the snippet, after a False the record is unchanged.
C7_TrueExactlyWhenSaved ==
    [][ SaveStep =>
          /\ ret'.result = TRUE =>
                Strip(ret'.snippet) \in Held(mem'[1], ret'.user)
          /\ ret'.result = FALSE => StoreUnchanged ]_vars

\* C8: every snippet held has a score in [1, 5].
C8_ScoresWithinOneToFive ==
    \A u \in DOMAIN mem[1] :
        \A m \in Range(mem[1][u]) : 10 <= m.score /\ m.score <= 50

\* a ranks above b: higher score, or the same score and created later
Outranks(a, b) ==
    \/ a.score > b.score
    \/ a.score = b.score /\ a.created_at > b.created_at

\* The snippet an accepted save step has created
Created ==
    MemorySnippet(Strip(ret'.snippet),
                  IF ret'.score = None
                  THEN score_memory(Strip(ret'.snippet), ret'.category)
                  ELSE ret'.score[1],
                  clock', ret'.category)

\* C9: after every accepted save the user's record is in descending order of
\* (score, created_at) and is the 10 highest-ranked snippets of the previous
\* record plus the new snippet: a snippet that is left out outranks none of
\* the 10 that are kept.
C9_TopTenByScoreThenRecency ==
    [][ (SaveStep /\ ret'.result = TRUE) =>
          LET old  == Range(Record(mem[1], ret'.user))
              new  == Record(mem'[1], ret'.user)
              pool == old \cup {Created}
          IN  /\ \A i, j \in DOMAIN new : i < j => ~Outranks(new[j], new[i])
              /\ Range(new) \subseteq pool
              /\ Len(new) = Min(10, Cardinality(pool))
              /\ Cardinality(Range(new)) = Len(new)
              /\ \A x \in pool \ Range(new) :
                    \A y \in Range(new) : ~Outranks(x, y) ]_vars

\* A full record in which an accepted save has displaced the oldest of the
\* snippets that tie with the new one on score
C9_Witness ==
    /\ ret.op = "save" /\ ret.result /\ ret.user = "u1"
    /\ Len(Record(mem[1], "u1")) = 10
    /\ Filler(2) \notin Held(mem[1], "u1")
    /\ \E m \in Range(Record(mem[1], "u1")) :
          /\ m.content = Strip(ret.snippet)
          /\ m.score = score_memory(Filler(2), "docs")

-----------------------------------------------------------------------------
(* Properties of concurrent saves (specification SpecConc) *)

\* Both calls of two different threads returned True, for the same user and
\* for snippets that differ after normalization
BothAccepted(t1, t2) ==
    /\ t1 # t2
    /\ thr[t1].pc = "returned" /\ thr[t1].result
    /\ thr[t2].pc = "returned" /\ thr[t2].result
    /\ thr[t1].user_id = thr[t2].user_id
    /\ Normalized(thr[t1].snippet) # Normalized(thr[t2].snippet)

\* C2: when two concurrent runs of one user each save a distinct snippet
\* that is accepted, and the record has room for both, the user's record
\* holds both snippets afterwards, whether the runs use the same engine or
\* two engines of the process.
C2_NoLostUpdate ==
    \A t1, t2 \in Threads :
        BothAccepted(t1, t2) =>
            {Strip(thr[t1].snippet), Strip(thr[t2].snippet)}
                \subseteq Held(load(disk), thr[t1].user_id)

-----------------------------------------------------------------------------
(* Properties of the runs of the workflow (specification SpecRun) *)

SaveCalls(calls) == {i \in DOMAIN calls : calls[i].fn = "save_memory"}

\* C3: when a node raises (every node that can raise runs before
\* memory_write), the dicts of the stores and the file are what they were
\* when the run started, and the run has called save_memory never.
C3_FailedRunLeavesStore ==
    run.pc = "failed" =>
        /\ <<mem, disk>> = before
        /\ SaveCalls(run.calls) = {}

\* A run that failed in the writer, on a store an earlier run had saved to
C3_Witness ==
    /\ run.pc = "failed"
    /\ run.trace[Len(run.trace)] = "writer"
    /\ nops = 1 /\ ret.result
    /\ before[2].kind = "json"

ModeOf(state) == IF "mode" \in DOMAIN state THEN state.mode ELSE "docs"

\* The step changes a store's dict or the file
StoreChanges == mem' # mem \/ disk' # disk

\* The step is memory_write's single call
\* save_memory(user_id, memory_to_save, category=mode), and what it stores
\* carries the mode as its category
IsTheWriteOf(state) ==
    /\ run.pc = "memory_write"
    /\ Truthy(state.memory_to_save)
    /\ SaveCalls(run.calls) = {}
    /\ Cardinality(SaveCalls(run'.calls)) = 1
    /\ ret' = [op |-> "save", user |-> state.user_id,
               snippet |-> state.memory_to_save[1],
               category |-> ModeOf(state), score |-> None, result |-> TRUE]
    /\ \A s \in Stores \ {run.engine} : mem'[s] = mem[s]
    /\ \A u \in DOMAIN mem'[run.engine] :
          u # state.user_id => Record(mem'[run.engine], u)
                                   = Record(mem[run.engine], u)
    /\ \A m \in Range(Record(mem'[run.engine], state.user_id)) :
          m.content = Strip(state.memory_to_save[1])
              => m.category = ModeOf(state)

\* C4: a run whose writer leaves memory_to_save None or empty changes
\* nothing in the store; within a run the store is changed only by the
\* memory_write node and only through one call
\* save_memory(user_id, memory_to_save, category=mode).
C4_OnlyMemoryWriteSaves ==
    /\ [](run.pc = END /\ ~Truthy(Get(run.state, "memory_to_save", None))
            => <<mem, disk>> = before /\ SaveCalls(run.calls) = {})
    /\ [][StoreChanges => IsTheWriteOf(run.state)]_vars

\* A run in docs mode ended having saved its snippet through memory_write,
\* after an earlier run that saved nothing
C4_Witness ==
    /\ run.pc = END
    /\ nruns = 2 /\ nops = 1
    /\ "mode" \in DOMAIN run.state /\ run.state.mode = "docs"
    /\ Some(ret.snippet) = run.state.memory_to_save
    /\ <<mem, disk>> # before

ExpectedRoute(state) ==
    IF "mode" \in DOMAIN state
       /\ state.mode \in {"product", "video", "research"}
    THEN state.mode ELSE "docs"

\* The step is the return of the router node followed by route_by_mode
RouterReturns == run.pc = "router" /\ run'.pc \notin {"router", "failed"}

\* C10: the route is a function of state.mode alone: "product", "video",
\* "research" for these modes and "docs" for any other or missing mode;
\* it is defined on every state and routing changes nothing: not the
\* store, and no key of the state (the router node itself sets intent).
C10_RouteIsFunctionOfMode ==
    /\ [](run.pc # "idle"
            => route_by_mode(run.state) = ExpectedRoute(run.state))
    /\ [][RouterReturns =>
            /\ run'.route = ExpectedRoute(run.state)
            /\ run'.pc = ConditionalTargets[run'.route]
            /\ DOMAIN run'.state \ {"intent"} = DOMAIN run.state \ {"intent"}
            /\ \A k \in DOMAIN run.state \ {"intent"} :
                  run'.state[k] = run.state[k]
            /\ StoreUnchanged]_vars

\* A run whose state carries no mode was routed to docs and went through
\* the docs branch to the end
C10_Witness ==
    /\ run.pc = END
    /\ "mode" \notin DOMAIN run.state
    /\ run.route = "docs"
    /\ "memory_read" \in Range(run.trace)

-----------------------------------------------------------------------------
(* The stages a run executes (specification SpecRun) *)

\* The run in progress or last finished was started in mode m
HasMode(m) ==
    run.pc # "idle" /\ "mode" \in DOMAIN run.state /\ run.state.mode = m

FourModes == {"docs", "video", "product", "research"}

\* The stage sequences as the specification lists them
ListedSequence ==
    [docs     |-> <<"memory_read", "retriever", "tools", "react_agent",
                    "writer", "memory_write">>,
     video    |-> <<"memory_read", "retriever", "video_precontext",
                    "video_chapters", "tools", "react_agent", "writer",
                    "memory_write">>,
     product  |-> <<"product_builder", "writer", "memory_write">>,
     research |-> <<"research_precontext", "research_agent", "writer",
                    "memory_write">>]

\* The same with the docs branch going through the two video nodes
InvokedSequence ==
    [ListedSequence EXCEPT !["docs"] = ListedSequence["video"]]

\* C11 as stated: after the router, a run that does not fail executes
\* exactly the listed sequence of its mode, each stage once; docs is
\* memory_read, retriever, tools, react_agent, writer, memory_write.
C11_ListedStageSequence ==
    \A m \in FourModes :
        HasMode(m) /\ run.pc = END
            => run.trace = <<"router">> \o ListedSequence[m]

\* C11: after the router, a run that does not fail executes exactly the
\* sequence of its mode, in order and each stage once, where the docs
\* sequence is the video sequence (video_precontext and video_chapters
\* are invoked between retriever and tools); writer immediately precedes
\* memory_write and memory_write is last.
C11_InvokedStageSequence ==
    \A m \in FourModes :
        HasMode(m) /\ run.pc = END
            => /\ run.trace = <<"router">> \o InvokedSequence[m]
               /\ run.trace[Len(run.trace)] = "memory_write"
               /\ run.trace[Len(run.trace) - 1] = "writer"

\* A docs run that reached the end
C11_Witness ==
    /\ HasMode("docs")
    /\ run.pc = END
    /\ Len(run.trace) = 9

\* The stages of the docs/video branch below the two video nodes
RagStages == {"memory_read", "retriever", "tools", "react_agent"}
VideoStages == {"video_precontext", "video_chapters"}

\* C12 as stated: stages of another mode are never invoked: no video stage
\* in a docs run, no stage of the docs/video branch in a product or
\* research run.
C12_OtherModesNeverInvoked ==
    /\ HasMode("docs") => Range(run.trace) \cap VideoStages = {}
    /\ HasMode("product") \/ HasMode("research")
          => Range(run.trace) \cap RagStages = {}

\* The step is the execution of a video stage in a run of another mode
ForeignVideoStage == run.pc \in VideoStages /\ ~HasMode("video")

\* C12: in product and research runs no stage of the docs/video branch
\* and no video stage is invoked; in a docs run the two video stages are
\* invoked, but as guarded no-ops: they call no collaborator, cannot
\* raise, and leave the state and the store as they are.
C12_ForeignStagesAreNoOps ==
    /\ [](HasMode("product") \/ HasMode("research")
            => Range(run.trace) \cap (RagStages \cup VideoStages) = {})
    /\ [][ForeignVideoStage =>
            /\ run'.pc = Edges[run.pc]
            /\ run'.state = run.state
            /\ run'.calls = run.calls
            /\ StoreUnchanged]_vars

\* A docs run in which a tool context exists has passed both video stages
C12_Witness ==
    /\ HasMode("docs")
    /\ run.pc = "tools"
    /\ run.state.intent = Some(L_code)
    /\ "video_chapters" \in Range(run.trace)

\* C13: in a video run memory_snippet is None after memory_read whatever
\* the store holds for the user, and in every later state of the run; in a
\* docs run memory_read sets it to None exactly when the store returns the
\* empty string for the user (which it does exactly when the user's record
\* is empty), and to the returned text otherwise.
C13_VideoReadsNoMemory ==
    /\ [](HasMode("video") => run.state.memory_snippet = None)
    /\ [][run.pc = "memory_read" /\ HasMode("docs") =>
            \E text \in {get_memory(mem[run.engine], run.state.user_id,
                                    None)} :
                /\ text = <<>>
                     <=> Record(mem[run.engine], run.state.user_id) = <<>>
                /\ run'.state.memory_snippet = None <=> text = <<>>
                /\ text # <<>> => run'.state.memory_snippet = Some(text)]_vars

\* A video run of a user with a full record, finished
C13_Witness ==
    /\ HasMode("video")
    /\ run.pc = END
    /\ Len(Record(mem[run.engine], run.state.user_id)) > 0

\* C14: in a video run the writer sets answer to intermediate_answer and
\* memory_to_save to None (it asks no collaborator and cannot fail), so
\* the run calls save_memory never and the store stays as it was when the
\* run started.
C14_VideoRunSavesNothing ==
    /\ [](HasMode("video") => /\ <<mem, disk>> = before
                              /\ SaveCalls(run.calls) = {}
                              /\ run.state.memory_to_save = None)
    /\ [][run.pc = "writer" /\ HasMode("video") =>
            /\ run'.pc = "memory_write"
            /\ run'.state.answer = run.state.intermediate_answer
            /\ run'.state.memory_to_save = None]_vars

\* A video run finished with the fallback text as its answer, on a store
\* that an earlier run had saved to
C14_Witness ==
    /\ HasMode("video")
    /\ run.pc = END
    /\ run.state.answer = COULD_NOT_GENERATE
    /\ nops = 1 /\ ret.result

\* C15: in the final state of a run the fields of other modes hold their
\* initial values: retrieved_docs is empty and memory_snippet None in
\* product and research runs, video_chapters is empty unless the mode is
\* video, research_plan is empty unless the mode is research, and intent
\* is None in product, video and research runs.
C15_ForeignFieldsKeepZero ==
    run.pc = END =>
        LET state == run.state
            mode  == ModeOf(state)
        IN  /\ mode \in {"product", "research"}
                 => state.retrieved_docs = <<>> /\ state.memory_snippet = None
            /\ mode # "video" => state.video_chapters = <<>>
            /\ mode # "research" => state.research_plan = <<>>
            /\ mode \in {"product", "video", "research"}
                 => state.intent = None

\* A product run finished for a user whose record is not empty
C15_Witness ==
    /\ HasMode("product")
    /\ run.pc = END
    /\ run.state.intermediate_answer = T_text
    /\ Len(Record(before[1][run.engine], run.state.user_id)) > 0

\* The fields each node function names in the dicts it returns
ReturnedFields ==
    [router              |-> {"intent"},
     memory_read         |-> {"memory_snippet"},
     retriever           |-> {"retrieved_docs"},
     video_precontext    |-> {"tool_context"},
     video_chapters      |-> {"video_chapters"},
     tools               |-> {"tool_context"},
     react_agent         |-> {"intermediate_answer"},
     product_builder     |-> {"intermediate_answer"},
     research_precontext |-> {"tool_context", "research_plan"},
     research_agent      |-> {"intermediate_answer"},
     writer              |-> {"answer", "memory_to_save"},
     memory_write        |-> {}]

InputFields == {"question", "user_id", "mode", "video_url"}

\* C16: a stage's result is merged field by field: every field outside
\* the stage's returned update has after the stage the value it had
\* before (and no field appears or disappears outside it); memory_write
\* changes no field; question, user_id, mode and video_url never change
\* during a run.
C16_MergeKeepsOtherFields ==
    [][run.pc \in DOMAIN ReturnedFields =>
          /\ DOMAIN run'.state \ ReturnedFields[run.pc]
                = DOMAIN run.state \ ReturnedFields[run.pc]
          /\ \A k \in DOMAIN run.state \ ReturnedFields[run.pc] :
                run'.state[k] = run.state[k]
          /\ run.pc = "memory_write" => run'.state = run.state
          /\ \A k \in InputFields \cap DOMAIN run.state :
                run'.state[k] = run.state[k]]_vars

\* A research run finished: the plan set by research_precontext and the
\* inputs are still there after three more stages
C16_Witness ==
    /\ HasMode("research")
    /\ run.pc = END
    /\ run.state.research_plan = T_text
    /\ run.state.tool_context # <<>>
    /\ run.state.answer = T_text
    /\ run.state.question = Q_todo

\* The step starts a new run
NewRun == run'.pc = EntryPoint /\ run'.trace = <<>> /\ nruns' = nruns + 1

\* C17: when a stage raises, the run is aborted at that stage: the
\* exception leaves the engine (the run is failed, its last stage is the
\* one that raised) and no later stage of that run executes.
C17_RaiseAbortsRun ==
    /\ [](run.raised # None => /\ run.pc = "failed"
                               /\ run.trace[Len(run.trace)] = run.raised[1])
    /\ [][run.pc = "failed" => run' = run \/ NewRun]_vars

\* A docs run aborted in the tools stage, in the middle of its branch
C17_Witness ==
    /\ HasMode("docs")
    /\ run.pc = "failed"
    /\ run.raised = Some("tools")
    /\ Len(run.trace) = 6

Called(calls, fn, outcome) ==
    \E i \in DOMAIN calls : calls[i].fn = fn /\ calls[i].args = <<outcome>>

\* C18: answer generation in docs and video mode never raises: when the
\* tool-calling agent fails, the stage asks the LLM directly and returns a
\* non-empty intermediate_answer.
C18_AnswerGenerationNeverRaises ==
    [][run.pc = "react_agent" /\ (HasMode("docs") \/ HasMode("video")) =>
          /\ run'.pc # "failed"
          /\ Called(run'.calls, "agent.invoke", "raised")
                => /\ Called(run'.calls, "llm.invoke", "returned")
                   /\ run'.state.intermediate_answer # <<>>]_vars

\* The step is the writer's, in docs or research mode, and the LLM replied
WriterGotReply ==
    /\ run.pc = "writer"
    /\ HasMode("docs") \/ HasMode("research")
    /\ Len(run'.calls) = Len(run.calls) + 1
    /\ run'.calls[Len(run'.calls)].fn = "writer.llm.invoke"

\* C19: in docs and research mode, when the LLM's reply does not parse as
\* the expected object the writer returns answer = intermediate_answer and
\* memory_to_save = None and does not raise; when it parses, the answer is
\* the reply's (intermediate_answer if it has none) and memory_to_save is
\* the reply's single proposal, or None when that is missing or empty.
C19_WriterFallsBackOnUnparsedReply ==
    [][WriterGotReply =>
          LET reply == run'.calls[Len(run'.calls)].args[1]
              after == run'.state
          IN  /\ run'.pc = "memory_write"
              /\ ~reply.parsed
                   => /\ after.answer = run.state.intermediate_answer
                      /\ after.memory_to_save = None
              /\ reply.parsed
                   => /\ after.answer
                           = IF reply.answer = None
                             THEN run.state.intermediate_answer
                             ELSE reply.answer[1]
                      /\ after.memory_to_save
                           = IF reply.memory_to_save \in {None, Some(<<>>)}
                             THEN None ELSE reply.memory_to_save
                      /\ Len(after.memory_to_save) <= 1]_vars

\* A research run whose writer got a reply that did not parse
C19_Witness ==
    /\ HasMode("research")
    /\ run.pc = "memory_write"
    /\ ~run.calls[Len(run.calls)].args[1].parsed
    /\ run.state.answer = T_text
    /\ run.state.memory_to_save = None

-----------------------------------------------------------------------------
(* Durability (specification SpecDurable) *)

\* What a store constructed from the file after a restart would hold; the
\* restart happens later than anything the running store has done
AfterRestart == load_at(disk, clock + 1)

\* C20: after any sequence of completed save, update_score, delete and
\* clear operations on a store, a store freshly constructed from the file
\* holds for every user the same snippets (content, score, created_at,
\* category, content_hash) in the same order as the store in memory.
C20_RestartRestoresStore ==
    nops > 0 =>
        \A u \in Users : Record(AfterRestart, u) = Record(mem[1], u)

-----------------------------------------------------------------------------
(* Properties of a store constructed from a file (specification SpecFile)  *)

\* The file the store was constructed from
LoadedFile == before[2]

\* The first operation since construction has just completed
FirstOperation == nops = 1

\* _load found no file or raised inside its try block
Unparsed(file) == file.kind # "json"

\* A first get_memory on a store constructed from a file that is missing,
\* unreadable, not JSON or not a JSON object returns the empty string.
C21_UnparsedFileReadsAsEmpty ==
    (FirstOperation /\ ret.op = "get_memory" /\ Unparsed(LoadedFile))
        => /\ ret.raised = ""
           /\ ret.result = <<>>
           /\ mem[1] = EmptyDict

\* C21: a store constructed from a missing, unreadable or corrupt file (one
\* _load cannot parse, or one holding a damaged entry) is empty, and get
\* returns the empty string for every user without raising.
C21_UnusableFileReadsAsEmpty ==
    (FirstOperation /\ ret.op = "get_memory"
       /\ (Unparsed(LoadedFile) \/ LoadedFile = DamagedFile))
        => /\ ret.raised = ""
           /\ ret.result = <<>>
           /\ mem[1] = EmptyDict

\* The record of a user holds at most 10 snippets, each scored 2.0 or more
RecordWithinLimits(d, user_id) ==
    /\ Len(Record(d, user_id)) <= MAX_MEMORIES_PER_USER
    /\ \A m \in Range(Record(d, user_id)) : m.score >= MIN_SCORE_THRESHOLD

\* After update_score completes for a user, that user's record holds at most
\* 10 snippets, each with a score of at least 2.0, whatever file the store
\* was constructed from.
C22_UpdateScoreReestablishesLimits ==
    ret.op = "update_score" => RecordWithinLimits(mem[1], ret.user)

\* C22: after update_score or delete completes for a user, that user's
\* record holds at most 10 snippets, each with a score of at least 2.0,
\* whatever the record held before, including a record loaded from a file.
C22_MaintenanceReestablishesLimits ==
    ret.op \in {"update_score", "delete_memory"}
        => RecordWithinLimits(mem[1], ret.user)

\* A get_memory call has just returned
GetReturned == ret.op = "get_memory" /\ ret.raised = ""

\* The category argument names a category
Given(category) == category # None /\ category[1] # ""

\* The snippets of the user the call may return
Eligible(d, user_id, category) ==
    {m \in Range(Record(d, user_id)) :
        Given(category) => m.category \in {category[1], "general"}}

\* The contents the returned text is made of, in order
ReturnedContents == IF ret.result = <<>> THEN <<>> ELSE SplitLines(ret.result)

\* The snippet of the user that holds a content
Holding(d, user_id, content) ==
    CHOOSE m \in Range(Record(d, user_id)) : m.content = content

\* C23: get(user_id, category) returns the contents of min(5, number of
\* eligible) distinct eligible snippets of the user joined by newlines, in
\* order of non-increasing score, and no omitted eligible snippet has a
\* higher score than a returned one; with a category given (a non-empty
\* string) only snippets of that category or of "general" are eligible; the
\* result is the empty string when nothing is eligible.
C23_GetReturnsTopFiveEligible ==
    GetReturned =>
        LET eligible == Eligible(mem[1], ret.user, ret.category)
            lines    == ReturnedContents
            Score(i) == Holding(mem[1], ret.user, lines[i]).score
        IN  /\ Len(lines) = Min(5, Cardinality(eligible))
            /\ \A i \in DOMAIN lines :
                   \E m \in eligible : m.content = lines[i]
            /\ \A i, j \in DOMAIN lines : i # j => lines[i] # lines[j]
            /\ \A i, j \in DOMAIN lines : i < j => Score(i) >= Score(j)
            /\ \A m \in eligible :
                   (\A i \in DOMAIN lines : m.content # lines[i])
                       => \A i \in DOMAIN lines : m.score <= Score(i)
            /\ (eligible = {}) => ret.result = <<>>

\* A call with a category returned five snippets, out of order in the
\* record, while an eligible snippet was left out and a snippet of another
\* category had a higher score than all of them
C23_Witness ==
    /\ GetReturned
    /\ Given(ret.category)
    /\ Len(ReturnedContents) = 5
    /\ Cardinality(Eligible(mem[1], ret.user, ret.category)) > 5
    /\ \E m \in Range(Record(mem[1], ret.user)) :
          /\ m \notin Eligible(mem[1], ret.user, ret.category)
          /\ \A i \in DOMAIN ReturnedContents :
                m.score > Holding(mem[1], ret.user, ReturnedContents[i]).score
    /\ ret.result # get_memory_unsorted(mem[1], ret.user, ret.category)

ReadOperations == {"get_memory", "get_all_memories", "get_memory_stats"}

\* The step just taken completed a read operation
ReadStep == nops' = nops + 1 /\ ret'.op \in ReadOperations

\* The step just taken completed a get_memory call that repeats the call
\* completed by the step before it
RepeatedGet ==
    /\ ret.op = "get_memory"
    /\ nops' = nops + 1
    /\ ret'.op = "get_memory"
    /\ ret'.user = ret.user
    /\ ret'.category = ret.category

\* C24: get, get_all_memories and get_memory_stats leave the records of
\* every user unchanged, in memory and in the file (content, score, order),
\* and a get that directly follows the same get returns the same output.
C24_ReadsLeaveStoreUnchanged ==
    [][/\ ReadStep => StoreUnchanged
       /\ RepeatedGet => ret'.result = ret.result /\ ret'.raised = ret.raised
      ]_vars

\* get_all_memories returned the snippets of a record in another order than
\* the record, which still holds them in its own order, after an earlier
\* operation
C24_Witness ==
    /\ nops = 2
    /\ ret.op = "get_all_memories"
    /\ ret.raised = ""
    /\ Len(ret.result) > 1
    /\ ret.result # Record(mem[1], ret.user)
    /\ Range(ret.result) = Range(Record(mem[1], ret.user))

\* The snippets the step just taken added to the record of a user
Added(user_id) ==
    Range(Record(mem'[1], user_id)) \ Range(Record(mem[1], user_id))

\* C25: save returns false and changes nothing, in memory or in the file,
\* when the content is empty or shorter than 5 characters after trimming;
\* content of exactly 5 characters after trimming passes this test (it is
\* accepted into an empty record), and what a save stores is the trimmed
\* content.
C25_ShortContentRejected ==
    [][SaveStep =>
        LET trimmed == Strip(ret'.snippet)
        IN  /\ Len(trimmed) < 5 => ret'.result = FALSE /\ StoreUnchanged
            /\ (Len(trimmed) = 5 /\ Record(mem[1], ret'.user) = <<>>)
                   => ret'.result = TRUE /\ trimmed \in Held(mem'[1], ret'.user)
            /\ \A m \in Added(ret'.user) : m.content = trimmed
            /\ ret'.result = TRUE => disk' = JsonFile(mem'[1])
      ]_vars

\* " abcde " has been saved: the record and the file hold "abcde"
C25_Witness ==
    /\ ret.op = "save"
    /\ ret.snippet = C_fiveSpaced
    /\ ret.result = TRUE
    /\ C_five \in Held(mem[1], ret.user)
    /\ C_fiveSpaced \notin Held(mem[1], ret.user)
    /\ C_five \in Held(load(disk), ret.user)

\* " abcd " and the empty string have been refused
C25_WitnessRefused ==
    /\ ret.op = "save"
    /\ ret.snippet \in {C_four, <<>>}
    /\ ret.result = FALSE

-----------------------------------------------------------------------------
(* Properties of the heuristic score (specification SpecScore)             *)

\* What is known by construction of the snippet the save was called with
CaseOf(snippet) == CHOOSE c \in ScoreCases : c.snippet = snippet

\* 3.0, plus 0.5 for the product category, plus 0.5 for an action word,
\* minus 0.5 for a generic phrase, plus 0.3 over 50 characters, minus 0.5
\* under 20 characters, clamped to [1, 5]; in tenths
ExpectedScore(c, category) ==
    LET sum == 30 + (IF category = "product" THEN 5 ELSE 0)
                  + (IF c.action THEN 5 ELSE 0)
                  - (IF c.generic THEN 5 ELSE 0)
                  + (IF c.length > 50 THEN 3 ELSE 0)
                  - (IF c.length < 20 THEN 5 ELSE 0)
    IN  IF sum < 10 THEN 10 ELSE IF sum > 50 THEN 50 ELSE sum

\* C26: a snippet saved without a score argument is stored with the score
\* the formula gives for its trimmed content and its category; a product
\* snippet of 20 to 50 characters with "build" and no generic phrase is
\* stored with 4.0.
C26_HeuristicScore ==
    ret.op = "save" =>
        LET c      == CaseOf(ret.snippet)
            record == Record(mem[1], ret.user)
        IN  /\ ret.result = TRUE
            /\ Len(record) = 1
            /\ record[1].score = ExpectedScore(c, ret.category)
            /\ (/\ ret.category = "product"
                /\ c.length \in 20..50
                /\ Contains(Lower(c.snippet), B_build)
                /\ ~c.generic)
                   => record[1].score = 40

\* A product snippet of exactly 20 characters with "Build" in it has been
\* stored with 4.0
C26_Witness ==
    /\ ret.op = "save"
    /\ ret.category = "product"
    /\ ret.snippet = Pad(B_Build, 20)
    /\ Record(mem[1], ret.user)[1].score = 40

-----------------------------------------------------------------------------
(* Properties of the session store (specification SpecChat)                *)

IsPrefix(a, b) == Len(a) <= Len(b) /\ SubSeq(b, 1, Len(a)) = a

\* The step just taken completed a call; an add_message that found the
\* session active; a call other than delete_session
ChatStep == cops' = cops + 1
AddStep == ChatStep /\ cret'.op = "add_message" /\ cret'.session # 0
NotDeleteStep == ChatStep /\ cret'.op # "delete_session"

\* When add_message on an active session returns, the in-memory list is the
\* previous list with the message added at the end and the persisted list
\* equals it.
C27_AddMessagePersists ==
    [][AddStep =>
        LET ref  == cret'.session
            path == PathOf(objs[ref].user_id, objs[ref].session_id)
        IN  /\ objs'[ref].messages =
                   Append(objs[ref].messages,
                          ChatMessage(cret'.role, cret'.content,
                                      objs[ref].mode))
            /\ path \in DOMAIN files'
            /\ files'[path].messages = objs'[ref].messages
      ]_vars

\* No call other than delete_session removes the persisted record of a
\* session, and no call removes a message from a session object.
C27_OnlyDeleteRemovesRecords ==
    [][/\ NotDeleteStep => \A path \in DOMAIN files : path \in DOMAIN files'
       /\ \A ref \in DOMAIN objs :
              IsPrefix(objs[ref].messages, objs'[ref].messages)
      ]_vars

\* C27: the message log of a session is append-only and persisted after
\* every append: add_message on an active session leaves the persisted list
\* equal to the in-memory list, the previous list plus one message at the
\* end; no call other than delete_session removes, reorders or rewrites a
\* message of a persisted log or removes the persisted record.
C27_LogIsAppendOnly ==
    [][/\ AddStep =>
            LET ref  == cret'.session
                path == PathOf(objs[ref].user_id, objs[ref].session_id)
            IN  /\ objs'[ref].messages =
                       Append(objs[ref].messages,
                              ChatMessage(cret'.role, cret'.content,
                                          objs[ref].mode))
                /\ path \in DOMAIN files'
                /\ files'[path].messages = objs'[ref].messages
       /\ NotDeleteStep =>
            \A path \in DOMAIN files :
                /\ path \in DOMAIN files'
                /\ IsPrefix(files[path].messages, files'[path].messages)
       /\ \A ref \in DOMAIN objs :
              IsPrefix(objs[ref].messages, objs'[ref].messages)
      ]_vars

\* The text get_conversation_context is to return for an active session:
\* the last min(n, number of messages) messages, each as "User: " or
\* "Assistant: " and at most the first 500 characters of its content
LastMessages(session_id, n) ==
    LET messages == objs[active[session_id]].messages
        k        == Min(n, Len(messages))
    IN  SubSeq(messages, Len(messages) - k + 1, Len(messages))

Rendered(msg) ==
    (IF msg.role = "user" THEN <<"U","s","e","r",":"," ">>
     ELSE <<"A","s","s","i","s","t","a","n","t",":"," ">>)
        \o SubSeq(msg.content, 1, Min(Len(msg.content), 500))

ExpectedContext(session_id, n) ==
    IF session_id \notin DOMAIN active THEN <<>>
    ELSE Join(<<"\n", "\n">>,
              [i \in DOMAIN LastMessages(session_id, n) |->
                  Rendered(LastMessages(session_id, n)[i])])

ContextReturned == cret.op = "get_conversation_context"

\* For N of 1 or more get_context returns the last min(N, number of
\* messages) messages so rendered, and the empty string for a session that
\* is not active.
C28_ContextForPositiveSizes ==
    (ContextReturned /\ cret.max_messages >= 1)
        => cret.result = ExpectedContext(cret.session_id, cret.max_messages)

\* C28: get_context(session_id, N) returns the last min(N, number of
\* messages) messages so rendered, none for N = 0, and the empty string for
\* a session that is not active.
C28_ContextIsLastN ==
    ContextReturned
        => cret.result = ExpectedContext(cret.session_id, cret.max_messages)

\* C30: get_or_create_session(user_id, mode, session_id) returns a session
\* whose user_id is the requested user_id.
C30_ReturnedSessionBelongsToCaller ==
    cret.op = "get_or_create_session"
        => objs[cret.result].user_id = cret.user_id

-----------------------------------------------------------------------------
(* Properties of the session store under concurrent calls (specification   *)
(* SpecChatConc)                                                           *)

AllReturned == \A t \in Threads : cthr[t].pc = "done"

\* How many messages of a list have the content given
Occurrences(messages, content) ==
    Cardinality({i \in DOMAIN messages : messages[i].content = content})

\* The file of the session thread t appended its message to
FileOfTarget(t) ==
    PathOf(objs[cthr[t].target].user_id, objs[cthr[t].target].session_id)

\* Once both threads have returned, having obtained the same ChatSession
\* object, the persisted record holds the message of each thread that
\* appended one, exactly once.
C29_NoLostMessageOnOneObject ==
    (AllReturned /\ cthr["t1"].session = cthr["t2"].session)
        => \A t \in Threads :
              cthr[t].appended =>
                  /\ FileOfTarget(t) \in DOMAIN files
                  /\ Occurrences(files[FileOfTarget(t)].messages, M_of(t)) = 1

\* C29: once all concurrent get_or_create_session, add_message and
\* save_session calls on a session id have returned, the persisted record
\* of the session holds every message an add_message call appended, each
\* exactly once.
C29_NoLostMessage ==
    AllReturned =>
        \A t \in Threads :
            cthr[t].appended =>
                /\ FileOfTarget(t) \in DOMAIN files
                /\ Occurrences(files[FileOfTarget(t)].messages, M_of(t)) = 1

-----------------------------------------------------------------------------
(* C31: every run terminates.  A run that has started reaches the edge to  *)
(* END after memory_write or raises to the caller, in every mode, and the  *)
(* research agent never takes more than 15 steps.                          *)

Started == run.pc \notin {"idle", END, "failed"}
Ended == run.pc \in {END, "failed"}

C31_EveryRunTerminates ==
    /\ [](run.pc # "idle" => AgentSteps(run.calls) <= 15)
    /\ (Started ~> Ended)

\* A research run ended after the agent was cut off at its fifteenth step
C31_Witness ==
    /\ run.pc = END
    /\ run.state.mode = "research"
    /\ AgentSteps(run.calls) = 15
    /\ \E i \in DOMAIN run.calls : run.calls[i] = AgentCall("raised")
    /\ run.trace[Len(run.trace)] = "memory_write"

-----------------------------------------------------------------------------
(* C32: a run whose mode is none of docs, video, product, research *)

Unrecognized ==
    run.pc # "idle" /\ "mode" \in DOMAIN run.state
                    /\ run.state.mode \notin FourModes

RetrieverCalls(calls) ==
    {i \in DOMAIN calls : calls[i].fn = "retriever.invoke"}

\* What holds of C32: the run takes the docs branch and goes through the
\* nodes a docs run goes through.
C32_UnknownModeTakesDocsBranch ==
    /\ Unrecognized /\ run.route # "none" => run.route = "docs"
    /\ Unrecognized /\ run.pc = END
          => run.trace = <<"router">> \o InvokedSequence["docs"]

\* C32 as stated: a run with an unrecognized mode has the effects of a docs
\* run; retrieve fills the retrieved passages from the retriever and answer
\* generation sets intermediate_answer.
C32_UnknownModeBehavesAsDocs ==
    Unrecognized /\ run.pc = END
        => /\ RetrieverCalls(run.calls) # {}
           /\ run.state.retrieved_docs \in DocLists
           /\ run.state.intermediate_answer # <<>>

-----------------------------------------------------------------------------
(* C33: update_score *)

UpdateStep == ret'.op = "update_score" /\ nops' = nops + 1

Clamped(score) == IF score < 10 THEN 10 ELSE IF score > 50 THEN 50 ELSE score

\* The record before the step with the first snippet of the given hash
\* rescored
Rescored(memories, hit, score) ==
    [i \in DOMAIN memories |->
        IF i = hit THEN [memories[i] EXCEPT !.score = Clamped(score)]
        ELSE memories[i]]

\* What holds of C33: when a snippet of the user has the hash, the record
\* after update_score consists of snippets of the rescored record, is within
\* the limits, holds every snippet of the rescored record that scores 2.0 or
\* more when these are at most 10, and no longer holds the rescored snippet
\* when its new score is below 2.0.
C33_HitIsRescoredAndPruned ==
    [][ UpdateStep =>
          LET old  == Record(mem[1], ret'.user)
              new  == Record(mem'[1], ret'.user)
              hit  == FirstWithHash(old, ret'.content_hash)
              want == Rescored(old, hit, ret'.new_score)
              kept == {i \in DOMAIN want : want[i].score >= 20}
          IN  hit # 0 =>
                /\ Range(new) \subseteq {want[i] : i \in kept}
                /\ RecordWithinLimits(mem'[1], ret'.user)
                /\ Cardinality(kept) <= 10
                      => Range(new) = {want[i] : i \in kept}
                /\ Clamped(ret'.new_score) < 20
                      => Len(new) < Len(old) ]_vars

\* C33 as stated: the first snippet with the hash is rescored to the clamped
\* value and the record re-pruned; when no snippet of the user has the
\* hash, the user's snippets and their scores are unchanged.
C33_UpdateScoreAsStated ==
    [][ UpdateStep =>
          LET old  == Record(mem[1], ret'.user)
              new  == Record(mem'[1], ret'.user)
              hit  == FirstWithHash(old, ret'.content_hash)
              want == Rescored(old, hit, ret'.new_score)
              kept == {i \in DOMAIN want : want[i].score >= 20}
          IN  IF hit = 0 THEN Range(new) = Range(old)
              ELSE /\ Range(new) \subseteq {want[i] : i \in kept}
                   /\ Clamped(ret'.new_score) < 20
                         => Len(new) < Len(old) ]_vars

-----------------------------------------------------------------------------
(* C34: the retriever node *)

Retrieves == run.pc # "idle" /\ Get(run.state, "mode", NoneMode) \in {"docs", "video"}

\* The calls the step added to the log
NewCalls == SubSeq(run'.calls, Len(run.calls) + 1, Len(run'.calls))

RetrieverReturns == run.pc = "retriever" /\ run'.pc \notin {"retriever", "failed"}

ExpectedK == IF Get(run.state, "mode", NoneMode) = "video" THEN 15 ELSE 4

-----------------------------------------------------------------------------
(* C35: tool_context within a run *)

ToolContextWriters == {"tools", "video_precontext", "research_precontext"}

\* A node of the run in progress returns and tool_context has changed
ToolContextChanges ==
    /\ Started
    /\ run'.pc # "failed"
    /\ run'.state.tool_context # run.state.tool_context

\* C35: whenever a node changes tool_context, the node is tools,
\* video_precontext or research_precontext and the previous value is a
\* prefix of the new one, in every mode.
C35_ToolContextAppendOnly ==
    [][ ToolContextChanges =>
          /\ run.pc \in ToolContextWriters
          /\ IsPrefix(run.state.tool_context, run'.state.tool_context) ]_vars

\* A video run in which video_precontext has written the tool context and
\* the tools node has run after it
C35_Witness ==
    /\ run.pc = "react_agent"
    /\ HasMode("video")
    /\ run.state.tool_context = T_text
    /\ "video_precontext" \in Range(run.trace)
    /\ "tools" \in Range(run.trace)

\* A docs run in which the tools node has written the tool context
C35_WitnessDocs ==
    /\ run.pc = "react_agent"
    /\ HasMode("docs")
    /\ run.state.tool_context = Strip(PRE_CODE_CONTEXT \o T_text)

-----------------------------------------------------------------------------
(* C36: content hashes within a record, also under concurrent saves *)

NoTwoWithSameHash(d) ==
    \A u \in DOMAIN d :
        \A i, j \in DOMAIN d[u] :
            i < j => d[u][i].content_hash # d[u][j].content_hash

\* Two threads called save_memory on the same store with the same content
\* for the same user, and both calls have returned
SameSave(t1, t2) ==
    /\ t1 # t2
    /\ thr[t1].pc = "returned" /\ thr[t2].pc = "returned"
    /\ thr[t1].store = thr[t2].store
    /\ thr[t1].user_id = thr[t2].user_id
    /\ thr[t1].snippet = thr[t2].snippet

\* The content was acceptable when the two calls were made: long enough and
\* no duplicate of what the record held
Acceptable(t) ==
    /\ Len(Strip(thr[t].snippet)) >= 5
    /\ ~is_duplicate(Strip(thr[t].snippet),
                     Record(before[1][thr[t].store], thr[t].user_id))

-----------------------------------------------------------------------------
(* C37: users are isolated in the store (specification SpecUsers) *)

OperationCompletes == nops' = nops + 1

\* The contents only users other than user_id hold
HeldByOthersOnly(d, user_id) ==
    UNION {Held(d, b) : b \in Users \ {user_id}} \ Held(d, user_id)

\* Some snippet of the record shares its hash, or more than 80% of its
\* words, with the content
ResemblesOneOf(content, memories) ==
    \E m \in Range(memories) :
        \/ m.content_hash = compute_hash(content)
        \/ ShareMoreThan(content, m.content, 4, 5)

\* C37: save_memory, update_score, delete_memory and clear_user_memories for
\* one user leave the record of every other user as it was, in the store
\* and in the file; save_memory rejects a snippet of sufficient length
\* exactly when the same user's record holds one it resembles, whatever
\* other users hold; get_memory of a user returns no content that only other
\* users hold.
C37_UsersAreIsolated ==
    [][ OperationCompletes =>
          /\ \A b \in Users \ {ret'.user} :
                /\ Record(mem'[1], b) = Record(mem[1], b)
                /\ disk' # disk => Record(load_at(disk', clock'), b)
                                     = Record(mem[1], b)
          /\ ret'.op = "save" /\ Len(Strip(ret'.snippet)) >= 5
                => (ret'.result
                      <=> ~ResemblesOneOf(Strip(ret'.snippet),
                                          Record(mem[1], ret'.user)))
          /\ ret'.op = "get_memory"
                => \A c \in HeldByOthersOnly(mem[1], ret'.user) :
                      ~Contains(ret'.result, c) ]_vars

\* u1 saved a snippet that u2 already held: the call returned True, both
\* users hold the content, and u2's record is what it was in the file
C37_Witness ==
    /\ ret.op = "save"
    /\ ret.user = "u1"
    /\ ret.snippet = C_abcdf
    /\ ret.result
    /\ C_abcdf \in Held(mem[1], "u1") \cap Held(mem[1], "u2")
    /\ Record(mem[1], "u2") = Record(before[1][1], "u2")
    /\ Len(Record(mem[1], "u2")) = 2

-----------------------------------------------------------------------------
(* C38: the range of the heuristic score (specifications SpecScore, Spec) *)

\* C38: a snippet saved without a score is never rejected for its score:
\* save_memory returns True for every snippet of sufficient length on an
\* empty record, and the score it stores lies between 2.0 and 4.3.
C38_HeuristicScoreWithinRange ==
    ret.op = "save" =>
        /\ ret.score = None
        /\ Len(Strip(ret.snippet)) >= 5
        /\ ret.result
        /\ Len(Record(mem[1], ret.user)) = 1
        /\ Record(mem[1], ret.user)[1].score >= 20
        /\ Record(mem[1], ret.user)[1].score <= 43

\* A generic snippet of 19 characters was saved with the score 2.0, and not
\* under the category product
C38_Witness ==
    /\ ret.op = "save"
    /\ ret.result
    /\ Len(Strip(ret.snippet)) = 19
    /\ ret.category = "docs"
    /\ Record(mem[1], ret.user)[1].score = 20

\* In a store that holds snippets, save_memory without a score returns
\* False only for a snippet that is too short or resembles one of the
\* user's record.
C38_RejectedOnlyShortOrDuplicate ==
    [][ SaveStep /\ ret'.score = None /\ ~ret'.result =>
          \/ Len(Strip(ret'.snippet)) < 5
          \/ ResemblesOneOf(Strip(ret'.snippet), Record(mem[1], ret'.user))
      ]_vars

-----------------------------------------------------------------------------
(* C39 *)

\* `snippet` is "Built MVP for: " followed by the first 100 characters of
\* `question` (by all of it when it has fewer)
IsBuiltMvpFor(snippet, question) ==
    /\ Len(snippet) = Len(BUILT_MVP_FOR)
                        + (IF Len(question) < 100 THEN Len(question) ELSE 100)
    /\ \A i \in 1..Len(snippet) :
          snippet[i] = IF i <= Len(BUILT_MVP_FOR) THEN BUILT_MVP_FOR[i]
                       ELSE question[i - Len(BUILT_MVP_FOR)]

\* The step is the one call save_memory(user_id, snippet, "product") of a
\* run of `state`, and what it adds to the record has category product
SavesAsProduct(state) ==
    /\ run'.calls = Append(run.calls,
                           [fn |-> "save_memory",
                            args |-> <<state.user_id,
                                       state.memory_to_save[1], "product">>])
    /\ nops' = nops + 1
    /\ ret'.op = "save" /\ ret'.user = state.user_id
    /\ ret'.snippet = state.memory_to_save[1]
    /\ ret'.category = "product" /\ ret'.score = None
    /\ \A m \in Range(Record(mem'[run.engine], state.user_id)) :
          m \notin Range(Record(mem[run.engine], state.user_id))
              => /\ m.content = Strip(state.memory_to_save[1])
                 /\ m.category = "product"

\* C39: the writer of a product run sets memory_to_save to "Built MVP
\* for: " followed by the first 100 characters of the question, memory_write
\* hands it to save_memory under category product, and a product run that
\* ends right after a product run that ended, for the same user and the
\* same question, leaves the user's record as it was when it started, that
\* is as the first run left it.
C39_ProductRunSavesOnce ==
    /\ [][run.pc = "writer" /\ HasMode("product") =>
            /\ run'.pc = "memory_write"
            /\ run'.state.memory_to_save # None
            /\ IsBuiltMvpFor(run'.state.memory_to_save[1],
                             run.state.question)]_vars
    /\ [][run.pc = "memory_write" /\ HasMode("product") =>
            /\ IsBuiltMvpFor(run.state.memory_to_save[1], run.state.question)
            /\ SavesAsProduct(run.state)]_vars
    /\ [](run.pc = END /\ HasMode("product") /\ run.repeats =>
            Record(mem[run.engine], run.state.user_id)
                = Record(before[1][run.engine], run.state.user_id))

\* A second product run for the same user and the long question has ended;
\* the first run had added the snippet, cut at 100 characters, to a full
\* record
C39_Witness ==
    /\ run.pc = END /\ HasMode("product") /\ run.repeats
    /\ run.state.question = Q_long
    /\ Len(run.state.memory_to_save[1]) = Len(BUILT_MVP_FOR) + 100
    /\ ret.op = "save" /\ ~ret.result
    /\ Len(Record(mem[run.engine], run.state.user_id))
         = MAX_MEMORIES_PER_USER
    /\ Strip(run.state.memory_to_save[1])
         \in Held(mem[run.engine], run.state.user_id)

\* The second of two such runs has ended on a record full of better
\* snippets: both runs' saves returned True and the record holds the
\* snippet after neither
C39_WitnessPruned ==
    /\ run.pc = END /\ HasMode("product") /\ run.repeats
    /\ ret.op = "save" /\ ret.result
    /\ Strip(run.state.memory_to_save[1])
         \notin Held(mem[run.engine], run.state.user_id)

=============================================================================
